---- MODULE Spec2Model ----
(***************************************************************************)
(* A model of the riscv-emu hart: Memory, Bus, Csr and Cpu                 *)
(* (fetch / decode / execute), with the driver loop that steps it.         *)
(*                                                                         *)
(* A u64 is a sequence of 8 bytes, least significant first, so that every  *)
(* operation keeps its 64-bit width; a u32 / i32 intermediate is the same  *)
(* with the upper four bytes produced by the cast that the code applies.   *)
(***************************************************************************)
EXTENDS Integers, Sequences, FiniteSets, TLC

VARIABLES
    registers,  \* Cpu.registers : [u64; 32]
    pc,         \* Cpu.pc
    memory,     \* Memory.data : Vec<u8>, indexed from 0
    csr,        \* Csr.data : [u64; 4096], kept as the entries that differ from 0
    status,     \* "running", "halted" (EBREAK seen), "error" (Err returned), "abort" (panic)
    last,       \* the operation the driver issued last, and what it returned
    prev,       \* the operation before that
    steps,      \* number of driver operations issued so far
    mstatus     \* Mstatus.raw

vars == <<registers, pc, memory, csr, status, last, prev, steps, mstatus>>

-----------------------------------------------------------------------------
(* Bounds of the model.                                                    *)

\* Size in bytes of the Memory the driver constructs (Memory::new(size)).
MemSize == 16
\* Driver operations issued against the Bus or the Csr file in one run.
MaxOps == 2
\* Driver operations among which write_register calls may fall: the driver
\* seeds registers only within its first MaxSeeds operations.
MaxSeeds == 2
\* Driver operations on the hart (write_register calls and turns of the
\* loop) in one run.
MaxCycles == 6

\* The largest seed n the Fibonacci run is started with, and the turns of
\* main's loop a run may take (the run from n takes 5 * n + 5).
MaxFib == 10
MaxTurns == 64

\* The largest count the countdown loop is started from.
MaxCount == 12

-----------------------------------------------------------------------------
(* 64-bit values.                                                          *)

\* XLEN (types.rs), and the bytes of a value of that width.
XLEN == 64
WordLen == XLEN \div 8
Byte == 0..255

Zero == <<0, 0, 0, 0, 0, 0, 0, 0>>
One == <<1, 0, 0, 0, 0, 0, 0, 0>>
AllOnes == <<255, 255, 255, 255, 255, 255, 255, 255>>

\* A small natural number (below 2^31) as u64.
FromNat(n) ==
    [i \in 1..WordLen |-> IF i <= 4 THEN (n \div (256 ^ (i - 1))) % 256 ELSE 0]

\* !x
NotW(w) == [i \in 1..Len(w) |-> 255 - w[i]]

\* `i as u64` for a signed value i of small magnitude (two's complement).
FromInt(i) == IF i >= 0 THEN FromNat(i) ELSE NotW(FromNat(-(i + 1)))

\* The value of a u64 known to be below 2^24, as a number (`as usize`).
ToNat(w) == w[1] + 256 * w[2] + 65536 * w[3]

\* Bit i (0 = least significant) of a value.
BitOf(w, i) == (w[(i \div 8) + 1] \div (2 ^ (i % 8))) % 2

\* (w >> lo) & (2^n - 1), as a number; n <= 30.
RECURSIVE Field(_, _, _)
Field(w, lo, n) ==
    IF n = 0 THEN 0 ELSE BitOf(w, lo) + 2 * Field(w, lo + 1, n - 1)

\* The value whose bit i is f[i], for f over 0..(8 * n - 1).
FromBits(f, n) ==
    [j \in 1..n |->
        f[8 * (j - 1)] + 2 * f[8 * (j - 1) + 1] + 4 * f[8 * (j - 1) + 2]
        + 8 * f[8 * (j - 1) + 3] + 16 * f[8 * (j - 1) + 4] + 32 * f[8 * (j - 1) + 5]
        + 64 * f[8 * (j - 1) + 6] + 128 * f[8 * (j - 1) + 7]]

\* wrapping_add on values of equal length: byte-wise with carry, the carry
\* out of the top byte dropped.
RECURSIVE AddBytes(_, _, _, _)
AddBytes(a, b, i, carry) ==
    IF i > Len(a) THEN <<>>
    ELSE LET s == a[i] + b[i] + carry
         IN  <<s % 256>> \o AddBytes(a, b, i + 1, s \div 256)

AddW(a, b) == AddBytes(a, b, 1, 0)

\* wrapping_sub: a + !b + 1.
SubW(a, b) == AddBytes(a, NotW(b), 1, 1)

\* wrapping_neg
NegW(a) == SubW([i \in 1..Len(a) |-> 0], a)

\* Unsigned a < b, decided from the most significant byte down.
RECURSIVE LtFrom(_, _, _)
LtFrom(a, b, i) ==
    IF i = 0 THEN FALSE
    ELSE IF a[i] # b[i] THEN a[i] < b[i]
    ELSE LtFrom(a, b, i - 1)

LtU(a, b) == LtFrom(a, b, Len(a))

\* The sign bit of a value read as a signed integer of its length.
IsNeg(a) == a[Len(a)] >= 128

\* Signed a < b.
LtS(a, b) == IF IsNeg(a) # IsNeg(b) THEN IsNeg(a) ELSE LtU(a, b)

\* Bitwise operations, byte by byte.
RECURSIVE AndBits(_, _, _)
AndBits(x, y, n) ==
    IF n = 0 THEN 0
    ELSE ((x % 2) * (y % 2)) + 2 * AndBits(x \div 2, y \div 2, n - 1)

AndW(a, b) == [i \in 1..Len(a) |-> AndBits(a[i], b[i], 8)]
OrW(a, b) == [i \in 1..Len(a) |-> a[i] + b[i] - AndBits(a[i], b[i], 8)]
XorW(a, b) == [i \in 1..Len(a) |-> a[i] + b[i] - 2 * AndBits(a[i], b[i], 8)]

\* `x as u8 / u16 / u32 as u64`: the low n bytes, zero-extended.
ZeroExt(w, n) == [i \in 1..WordLen |-> IF i <= n THEN w[i] ELSE 0]

\* `x as i8 / i16 / i32 as i64 as u64`: the low n bytes, sign-extended.
SignExt(w, n) ==
    [i \in 1..WordLen |-> IF i <= n THEN w[i] ELSE IF w[n] >= 128 THEN 255 ELSE 0]

\* `x as u32`, `x as i32`: the low four bytes.
Low32(w) == SubSeq(w, 1, 4)

\* A widening that forgets the sign: zeros above the value in every case.
WidenByZeros(w, n, signed) == [i \in 1..n |-> IF i <= Len(w) THEN w[i] ELSE 0]

\* A value widened to n bytes, by its sign when signed and by zeros otherwise
\* (`as i128`, `as u128`).
Widen(w, n, signed) ==
    [i \in 1..n |-> IF i <= Len(w) THEN w[i]
                    ELSE IF signed /\ IsNeg(w) THEN 255 ELSE 0]

\* x << k, x >> k (logical) and x >> k (arithmetic) on a value of Len(w)
\* bytes, for 0 <= k < 8 * Len(w).
ShlW(w, k) ==
    FromBits([i \in 0..(8 * Len(w) - 1) |-> IF i >= k THEN BitOf(w, i - k) ELSE 0], Len(w))

ShrW(w, k) ==
    FromBits([i \in 0..(8 * Len(w) - 1) |->
                 IF i + k <= 8 * Len(w) - 1 THEN BitOf(w, i + k) ELSE 0], Len(w))

SarW(w, k) ==
    FromBits([i \in 0..(8 * Len(w) - 1) |->
                 BitOf(w, IF i + k <= 8 * Len(w) - 1 THEN i + k ELSE 8 * Len(w) - 1)], Len(w))

\* wrapping_mul on values of equal length: the schoolbook product, byte by
\* byte, cut to the operands' length.
RECURSIVE ColumnSum(_, _, _, _)
ColumnSum(a, b, k, i) ==
    IF i > k THEN 0 ELSE a[i] * b[k + 1 - i] + ColumnSum(a, b, k, i + 1)

RECURSIVE MulBytes(_, _, _, _)
MulBytes(a, b, k, carry) ==
    IF k > Len(a) THEN <<>>
    ELSE LET s == ColumnSum(a, b, k, 1) + carry
         IN  <<s % 256>> \o MulBytes(a, b, k + 1, s \div 256)

MulW(a, b) == MulBytes(a, b, 1, 0)

\* The upper half of a 16-byte product: `(x >> XLEN) as u64`.
High64(w) == SubSeq(w, 9, 16)

\* Unsigned division of values of equal length, divisor not 0: long division
\* from the top bit down, the running remainder one byte longer than the
\* operands.
RECURSIVE DivBits(_, _, _, _, _)
DivBits(a, b, i, quotient, r) ==
    IF i < 0 THEN [q |-> quotient, r |-> SubSeq(r, 1, Len(a))]
    ELSE LET r1 == AddBytes(r, r, 1, BitOf(a, i))
         IN  IF LtU(r1, b)
             THEN DivBits(a, b, i - 1, quotient, r1)
             ELSE DivBits(a, b, i - 1, quotient \cup {i}, SubW(r1, b))

DivModU(a, b) ==
    LET n == Len(a)
        d == DivBits(a, Widen(b, n + 1, FALSE), 8 * n - 1, {},
                     [i \in 1..(n + 1) |-> 0])
    IN  [q |-> FromBits([i \in 0..(8 * n - 1) |-> IF i \in d.q THEN 1 ELSE 0], n),
         r |-> d.r]

\* wrapping_div and wrapping_rem on unsigned values.
DivU(a, b) == DivModU(a, b).q
RemU(a, b) == DivModU(a, b).r

\* The magnitude of a signed value, as an unsigned value of the same length.
Magnitude(a) == IF IsNeg(a) THEN NegW(a) ELSE a

\* wrapping_div and wrapping_rem on signed values: the quotient truncates
\* toward zero, the remainder takes the dividend's sign.
DivS(a, b) ==
    LET q == DivU(Magnitude(a), Magnitude(b))
    IN  IF IsNeg(a) # IsNeg(b) THEN NegW(q) ELSE q

RemS(a, b) ==
    LET r == RemU(Magnitude(a), Magnitude(b))
    IN  IF IsNeg(a) THEN NegW(r) ELSE r

\* i64::MIN, i32::MIN and -1 in either width.
MinOf(n) == [i \in 1..n |-> IF i = n THEN 128 ELSE 0]
MinusOne(n) == [i \in 1..n |-> 255]
ZeroOf(n) == [i \in 1..n |-> 0]

-----------------------------------------------------------------------------
(* Memory (memory.rs).                                                     *)

\* Memory::new: size bytes, all zero.
MemoryNew(size) == [i \in 0..(size - 1) |-> 0]

\* Whether data[(addr + i) as usize] is inside the buffer.
InBuffer(data, addr, i) ==
    LtU(AddW(addr, FromNat(i)), FromNat(Cardinality(DOMAIN data)))

\* Memory::read: the little-endian assembly of size bytes. Indexing past the
\* buffer panics.
MemoryRead(data, addr, size) ==
    IF \A i \in 0..(size - 1) : InBuffer(data, addr, i)
    THEN [abort |-> FALSE,
          value |-> [j \in 1..WordLen |->
                        IF j <= size THEN data[ToNat(addr) + j - 1] ELSE 0]]
    ELSE [abort |-> TRUE, value |-> Zero]

\* A store that spills the bytes most significant first.
StoredByteBigEndian(value, i) == Field(value, 8 * (7 - i), 8)

\* ((value >> (i * 8)) & 0xff) as u8: the byte stored at offset i of a write.
StoredByte(value, i) == Field(value, 8 * i, 8)

\* Memory::write: the low size bytes of value, in little-endian order. The
\* loop stores byte by byte, so a write that runs past the buffer has stored
\* the bytes before the end when it panics.
MemoryWrite(data, addr, value, size) ==
    LET fits == {i \in 0..(size - 1) : \A k \in 0..i : InBuffer(data, addr, k)}
        base == ToNat(addr)
    IN  [abort |-> fits # 0..(size - 1),
         data |-> [x \in DOMAIN data |->
                      IF \E i \in fits : x = base + i
                      THEN StoredByte(value, x - base)
                      ELSE data[x]]]

-----------------------------------------------------------------------------
(* Bus (bus.rs).                                                           *)

\* 0x8000_0000
MEM_BASE == <<0, 0, 0, 128, 0, 0, 0, 0>>

\* The address check with a digit of the base dropped (0x800_0000).
BusMappedShortBase(addr) == ~LtU(addr, <<0, 0, 0, 8, 0, 0, 0, 0>>)

\* The address check of Bus::read and Bus::write.
BusMapped(addr) == ~LtU(addr, MEM_BASE)

\* Bus::read. result is "Ok", "InvalidMemoryAccess" (payload: the address) or
\* "abort"; presented lists the bus addresses handed on to Memory.
BusRead(data, addr, size) ==
    IF BusMapped(addr)
    THEN LET r == MemoryRead(data, SubW(addr, MEM_BASE), size)
         IN  [result |-> IF r.abort THEN "abort" ELSE "Ok",
              value |-> r.value, payload |-> Zero, presented |-> {addr}]
    ELSE [result |-> "InvalidMemoryAccess", value |-> Zero, payload |-> addr,
          presented |-> {}]

\* Bus::write.
BusWrite(data, addr, value, size) ==
    IF BusMapped(addr)
    THEN LET r == MemoryWrite(data, SubW(addr, MEM_BASE), value, size)
         IN  [result |-> IF r.abort THEN "abort" ELSE "Ok",
              data |-> r.data, payload |-> Zero, presented |-> {addr}]
    ELSE [result |-> "InvalidMemoryAccess", data |-> data, payload |-> addr,
          presented |-> {}]

-----------------------------------------------------------------------------
(* Csr (cpu/csr.rs).                                                       *)

\* The length of Csr.data.
CSR_LEN == 4096

\* Csr::new: every entry 0. The array is kept as the entries that are not 0.
CsrNew == [a \in {} |-> Zero]

\* self.data[addr as usize]
CsrEntry(data, addr) == IF addr \in DOMAIN data THEN data[addr] ELSE Zero

\* Csr::read: addr is a u16.
CsrRead(data, addr) ==
    IF addr >= CSR_LEN
    THEN [result |-> "InvalidCsrAccess", value |-> Zero, payload |-> addr]
    ELSE [result |-> "Ok", value |-> CsrEntry(data, addr), payload |-> 0]

\* A write that replaces the whole array by one holding only the new entry.
CsrWriteFresh(data, addr, val) ==
    IF addr >= CSR_LEN
    THEN [abort |-> TRUE, data |-> data]
    ELSE [abort |-> FALSE,
          data |-> [a \in (IF val = Zero THEN {} ELSE {addr}) |-> val]]

\* Csr::write: self.data[addr as usize] = val. Indexing past the array panics.
CsrWrite(data, addr, val) ==
    IF addr >= CSR_LEN
    THEN [abort |-> TRUE, data |-> data]
    ELSE [abort |-> FALSE,
          data |-> [a \in (IF val = Zero THEN DOMAIN data \ {addr}
                                        ELSE DOMAIN data \cup {addr}) |->
                      IF a = addr THEN val ELSE data[a]]]

\* The shape of the six execute_* operations, from the answer r of
\* self.read(addr) on: an Err returns at once; otherwise new is written and
\* the old value returned.
CsrReadThenWrite(data, addr, r, new) ==
    IF r.result # "Ok"
    THEN [result |-> r.result, value |-> Zero, payload |-> r.payload, data |-> data]
    ELSE LET w == CsrWrite(data, addr, new)
         IN  [result |-> IF w.abort THEN "abort" ELSE "Ok",
              value |-> r.value, payload |-> 0, data |-> w.data]

\* let old_val = self.read(addr)?
OldVal(data, addr) == CsrRead(data, addr).value

\* Csr::execute_rw
CsrExecuteRw(data, addr, val) ==
    CsrReadThenWrite(data, addr, CsrRead(data, addr), val)

\* Csr::execute_rs
CsrExecuteRs(data, addr, val) ==
    CsrReadThenWrite(data, addr, CsrRead(data, addr), OrW(OldVal(data, addr), val))

\* A clear that leaves out the `!`: old_val & val.
CsrExecuteRcWithoutNot(data, addr, val) ==
    CsrReadThenWrite(data, addr, CsrRead(data, addr),
                     AndW(OldVal(data, addr), val))

\* Csr::execute_rc
CsrExecuteRc(data, addr, val) ==
    CsrReadThenWrite(data, addr, CsrRead(data, addr),
                     AndW(OldVal(data, addr), NotW(val)))

\* Csr::execute_rwi: imm is a u8.
CsrExecuteRwi(data, addr, imm) ==
    CsrReadThenWrite(data, addr, CsrRead(data, addr), FromNat(imm))

\* Csr::execute_rsi
CsrExecuteRsi(data, addr, imm) ==
    CsrReadThenWrite(data, addr, CsrRead(data, addr),
                     OrW(OldVal(data, addr), FromNat(imm)))

\* Csr::execute_rci
CsrExecuteRci(data, addr, imm) ==
    CsrReadThenWrite(data, addr, CsrRead(data, addr),
                     AndW(OldVal(data, addr), NotW(FromNat(imm))))

-----------------------------------------------------------------------------
(* Instruction (cpu.rs, instructions.rs). One record shape for every       *)
(* variant; a field a variant does not carry is 0.                         *)

Inst(op, rd, rs1, rs2, imm, offset, shamt) ==
    [op |-> op, rd |-> rd, rs1 |-> rs1, rs2 |-> rs2, imm |-> imm,
     offset |-> offset, shamt |-> shamt]

RType(op, rd, rs1, rs2) == Inst(op, rd, rs1, rs2, 0, 0, 0)
IType(op, rd, rs1, imm) == Inst(op, rd, rs1, 0, imm, 0, 0)
ShiftType(op, rd, rs1, shamt) == Inst(op, rd, rs1, 0, 0, 0, shamt)
LoadType(op, rd, rs1, offset) == Inst(op, rd, rs1, 0, 0, offset, 0)
StoreType(op, rs1, rs2, offset) == Inst(op, 0, rs1, rs2, 0, offset, 0)
BranchType(op, rs1, rs2, offset) == Inst(op, 0, rs1, rs2, 0, offset, 0)
UType(op, rd, imm) == Inst(op, rd, 0, 0, imm, 0, 0)
JAL(rd, offset) == Inst("JAL", rd, 0, 0, 0, offset, 0)
JALR(rd, rs1, offset) == Inst("JALR", rd, rs1, 0, 0, offset, 0)
EBREAK == Inst("EBREAK", 0, 0, 0, 0, 0, 0)
NoInst == Inst("none", 0, 0, 0, 0, 0, 0)

\* An Err that carries only the low 16 bits of the parcel.
UnknownInstructionShort(raw) ==
    [ok |-> FALSE, inst |-> NoInst,
     payload |-> [i \in 1..Len(raw) |-> IF i <= 2 THEN raw[i] ELSE 0]]

\* Ok(instruction) and Err(Exception::UnknownInstruction(raw)).
Decoded(inst) == [ok |-> TRUE, inst |-> inst, payload |-> Zero]
UnknownInstruction(raw) == [ok |-> FALSE, inst |-> NoInst, payload |-> raw]

\* A named variant, or the `_ =>` arm when the table has no row.
Row(name, inst, raw) ==
    IF name = "none" THEN UnknownInstruction(raw) ELSE Decoded(inst)

\* The value of the low `bits` bits of v read as a signed number: the
\* shift-left-then-arithmetic-shift-right idiom of the decoders.
SextFrom(v, bits) ==
    LET low == v % (2 ^ bits)
    IN  IF low >= 2 ^ (bits - 1) THEN low - 2 ^ bits ELSE low

-----------------------------------------------------------------------------
(* Cpu::decode (cpu.rs): the 32-bit decoder the hart carries.              *)

\* (funct7, funct3) rows of opcode 0b0110011.
OpRow(funct7, funct3) ==
    CASE funct7 = \b0000000 /\ funct3 = \b000 -> "ADD"
      [] funct7 = \b0100000 /\ funct3 = \b000 -> "SUB"
      [] funct7 = \b0000000 /\ funct3 = \b001 -> "SLL"
      [] funct7 = \b0000000 /\ funct3 = \b010 -> "SLT"
      [] funct7 = \b0000000 /\ funct3 = \b011 -> "SLTU"
      [] funct7 = \b0000000 /\ funct3 = \b100 -> "XOR"
      [] funct7 = \b0000000 /\ funct3 = \b101 -> "SRL"
      [] funct7 = \b0100000 /\ funct3 = \b101 -> "SRA"
      [] funct7 = \b0000000 /\ funct3 = \b110 -> "OR"
      [] funct7 = \b0000000 /\ funct3 = \b111 -> "AND"
      [] funct7 = \b0000001 /\ funct3 = \b000 -> "MUL"
      [] funct7 = \b0000001 /\ funct3 = \b001 -> "MULH"
      [] funct7 = \b0000001 /\ funct3 = \b010 -> "MULHSU"
      [] funct7 = \b0000001 /\ funct3 = \b011 -> "MULHU"
      [] funct7 = \b0000001 /\ funct3 = \b100 -> "DIV"
      [] funct7 = \b0000001 /\ funct3 = \b101 -> "DIVU"
      [] funct7 = \b0000001 /\ funct3 = \b110 -> "REM"
      [] funct7 = \b0000001 /\ funct3 = \b111 -> "REMU"
      [] OTHER -> "none"

\* (funct7, funct3) rows of opcode 0b0111011.
Op32Row(funct7, funct3) ==
    CASE funct7 = \b0000000 /\ funct3 = \b000 -> "ADDW"
      [] funct7 = \b0100000 /\ funct3 = \b000 -> "SUBW"
      [] funct7 = \b0000000 /\ funct3 = \b001 -> "SLLW"
      [] funct7 = \b0000000 /\ funct3 = \b101 -> "SRLW"
      [] funct7 = \b0100000 /\ funct3 = \b101 -> "SRAW"
      [] funct7 = \b0000001 /\ funct3 = \b000 -> "MULW"
      [] funct7 = \b0000001 /\ funct3 = \b100 -> "DIVW"
      [] funct7 = \b0000001 /\ funct3 = \b101 -> "DIVUW"
      [] funct7 = \b0000001 /\ funct3 = \b110 -> "REMW"
      [] funct7 = \b0000001 /\ funct3 = \b111 -> "REMUW"
      [] OTHER -> "none"

\* funct3 rows of opcode 0b0010011; bit 10 of imm tells SRLI from SRAI.
OpImmRow(funct3, imm) ==
    CASE funct3 = \b000 -> "ADDI"
      [] funct3 = \b010 -> "SLTI"
      [] funct3 = \b011 -> "SLTIU"
      [] funct3 = \b100 -> "XORI"
      [] funct3 = \b110 -> "ORI"
      [] funct3 = \b111 -> "ANDI"
      [] funct3 = \b001 -> "SLLI"
      [] funct3 = \b101 -> IF (imm \div \b10000000000) % 2 = 0 THEN "SRLI" ELSE "SRAI"
      [] OTHER -> "none"

\* funct3 (and, for the right shifts, funct7) rows of opcode 0b0011011.
OpImm32Row(funct3, funct7) ==
    CASE funct3 = \b000 -> "ADDIW"
      [] funct3 = \b001 -> "SLLIW"
      [] funct3 = \b101 /\ funct7 = \b0000000 -> "SRLIW"
      [] funct3 = \b101 /\ funct7 = \b0100000 -> "SRAIW"
      [] OTHER -> "none"

LoadRow(funct3) ==
    CASE funct3 = \b000 -> "LB"
      [] funct3 = \b001 -> "LH"
      [] funct3 = \b010 -> "LW"
      [] funct3 = \b100 -> "LBU"
      [] funct3 = \b101 -> "LHU"
      [] funct3 = \b011 -> "LD"
      [] funct3 = \b110 -> "LWU"
      [] OTHER -> "none"

StoreRow(funct3) ==
    CASE funct3 = \b000 -> "SB"
      [] funct3 = \b001 -> "SH"
      [] funct3 = \b010 -> "SW"
      [] funct3 = \b011 -> "SD"
      [] OTHER -> "none"

BranchRow(funct3) ==
    CASE funct3 = \b000 -> "BEQ"
      [] funct3 = \b001 -> "BNE"
      [] funct3 = \b100 -> "BLT"
      [] funct3 = \b101 -> "BGE"
      [] funct3 = \b110 -> "BLTU"
      [] funct3 = \b111 -> "BGEU"
      [] OTHER -> "none"

\* ((instruction as i32) >> 20) as Imm
ImmI(instruction) == SextFrom(Field(instruction, 20, 12), 12)

\* The S-type offset: imm[11:5] | imm[4:0], sign-extended from 12 bits.
ImmS(instruction) ==
    SextFrom(Field(instruction, 25, 7) * 32 + Field(instruction, 7, 5), 12)

\* The B-type offset taken as unsigned: no extension from bit 12.
ImmBUnsigned(instruction) ==
    Field(instruction, 31, 1) * 4096 + Field(instruction, 7, 1) * 2048
    + Field(instruction, 25, 6) * 32 + Field(instruction, 8, 4) * 2

\* The B-type offset: imm[12|11|10:5|4:1] << 1, sign-extended from 13 bits.
ImmB(instruction) ==
    SextFrom(Field(instruction, 31, 1) * 4096 + Field(instruction, 7, 1) * 2048
             + Field(instruction, 25, 6) * 32 + Field(instruction, 8, 4) * 2, 13)

\* The U-type immediate masked with 0x7ffff000: bit 31 is lost.
ImmUWithoutBit31(instruction) == Field(instruction, 12, 19) * 4096

\* (instruction as i32 & 0xfffff000u32 as i32) as Imm
ImmU(instruction) ==
    (Field(instruction, 12, 19) - Field(instruction, 31, 1) * 524288) * 4096

\* The J-type offset: imm[20|19:12|11|10:1] << 1, sign-extended from 21 bits.
ImmJ(instruction) ==
    SextFrom(Field(instruction, 31, 1) * 1048576 + Field(instruction, 12, 8) * 4096
             + Field(instruction, 20, 1) * 2048 + Field(instruction, 21, 10) * 2, 21)

\* Cpu::decode
Decode(instruction) ==
    LET opcode == Field(instruction, 0, 7)
        rd == Field(instruction, 7, 5)
        funct3 == Field(instruction, 12, 3)
        rs1 == Field(instruction, 15, 5)
        rs2 == Field(instruction, 20, 5)
        funct7 == Field(instruction, 25, 7)
    IN  CASE opcode = \b0110011 ->
               LET op == OpRow(funct7, funct3)
               IN  Row(op, RType(op, rd, rs1, rs2), instruction)
          [] opcode = \b0111011 ->
               LET op == Op32Row(funct7, funct3)
               IN  Row(op, RType(op, rd, rs1, rs2), instruction)
          [] opcode = \b0010011 ->
               LET imm == ImmI(instruction)
                   shamt == Field(instruction, 20, 6)
                   op == OpImmRow(funct3, imm)
               IN  IF op \in {"SLLI", "SRLI", "SRAI"}
                   THEN Decoded(ShiftType(op, rd, rs1, shamt))
                   ELSE Row(op, IType(op, rd, rs1, imm), instruction)
          [] opcode = \b0011011 ->
               LET imm == ImmI(instruction)
                   shamt == Field(instruction, 20, 5)
                   op == OpImm32Row(funct3, funct7)
               IN  IF op = "ADDIW"
                   THEN Decoded(IType(op, rd, rs1, imm))
                   ELSE Row(op, ShiftType(op, rd, rs1, shamt), instruction)
          [] opcode = \b0000011 ->
               LET op == LoadRow(funct3)
               IN  Row(op, LoadType(op, rd, rs1, ImmI(instruction)), instruction)
          [] opcode = \b0100011 ->
               LET op == StoreRow(funct3)
               IN  Row(op, StoreType(op, rs1, rs2, ImmS(instruction)), instruction)
          [] opcode = \b1100011 ->
               LET op == BranchRow(funct3)
               IN  Row(op, BranchType(op, rs1, rs2, ImmB(instruction)), instruction)
          [] opcode = \b0110111 -> Decoded(UType("LUI", rd, ImmU(instruction)))
          [] opcode = \b0010111 -> Decoded(UType("AUIPC", rd, ImmU(instruction)))
          [] opcode = \b1101111 -> Decoded(JAL(rd, ImmJ(instruction)))
          [] opcode = \b1100111 ->
               IF funct3 = \b000
               THEN Decoded(JALR(rd, rs1, ImmI(instruction)))
               ELSE UnknownInstruction(instruction)
          [] opcode = \b1110011 ->
               IF funct3 = \b000 /\ Field(instruction, 20, 12) = \b000000000001
               THEN Decoded(EBREAK)
               ELSE UnknownInstruction(instruction)
          [] OTHER -> UnknownInstruction(instruction)

-----------------------------------------------------------------------------
(* decode (cpu/decode.rs): the free 32-bit decoder. Its arms are those of  *)
(* Cpu::decode word for word, except the System arm.                       *)

\* CSRRW / CSRRS / CSRRC { rd, rs1, csr } and CSRRWI / CSRRSI / CSRRCI
\* { rd, imm: rs1 as u8, csr }.
CsrType(op, rd, rs1, addr) == [csr |-> addr] @@ Inst(op, rd, rs1, 0, 0, 0, 0)
CsrImmType(op, rd, imm, addr) == [csr |-> addr] @@ Inst(op, rd, 0, 0, imm, 0, 0)
ECALL == Inst("ECALL", 0, 0, 0, 0, 0, 0)

\* funct3 rows of opcode 0b1110011, funct3 # 0.
SystemRow(funct3) ==
    CASE funct3 = \b001 -> "CSRRW"
      [] funct3 = \b010 -> "CSRRS"
      [] funct3 = \b011 -> "CSRRC"
      [] funct3 = \b101 -> "CSRRWI"
      [] funct3 = \b110 -> "CSRRSI"
      [] funct3 = \b111 -> "CSRRCI"
      [] OTHER -> "none"

\* The System arm of decode.
DecodeSystem(instruction) ==
    LET rd == Field(instruction, 7, 5)
        funct3 == Field(instruction, 12, 3)
        rs1 == Field(instruction, 15, 5)
        addr == Field(instruction, 20, 12)
        op == SystemRow(funct3)
    IN  IF funct3 = \b000
        THEN CASE addr = \b000000000000 -> Decoded(ECALL)
               [] addr = \b000000000001 -> Decoded(EBREAK)
               [] OTHER -> UnknownInstruction(instruction)
        ELSE IF op \in {"CSRRW", "CSRRS", "CSRRC"}
        THEN Decoded(CsrType(op, rd, rs1, addr))
        ELSE Row(op, CsrImmType(op, rd, rs1, addr), instruction)

\* decode: instruction is a u32, carried here zero-extended.
decode(instruction) ==
    IF Field(instruction, 0, 7) = \b1110011
    THEN DecodeSystem(instruction)
    ELSE Decode(instruction)

-----------------------------------------------------------------------------
(* decode_compressed (cpu/decode.rs): the 16-bit decoder.                  *)

\* The sum of the bits of f that mask selects, each at its own position:
\* a u16 expression `x & mask` whose bit b is f[b].
RECURSIVE MaskSum(_, _, _)
MaskSum(f, mask, b) ==
    IF b > 15 THEN 0
    ELSE ((mask \div (2 ^ b)) % 2) * f[b] * (2 ^ b) + MaskSum(f, mask, b + 1)

\* (instruction >> k) & mask on a u16.
ShrAnd(w, k, mask) ==
    MaskSum([b \in 0..15 |-> IF b + k <= 15 THEN BitOf(w, b + k) ELSE 0], mask, 0)

\* (instruction << k) & mask on a u16.
ShlAnd(w, k, mask) ==
    MaskSum([b \in 0..15 |-> IF b >= k THEN BitOf(w, b - k) ELSE 0], mask, 0)

\* (instruction as i16 >> k) & mask: the arithmetic shift repeats bit 15.
SarAnd(w, k, mask) ==
    MaskSum([b \in 0..15 |-> BitOf(w, IF b + k <= 15 THEN b + k ELSE 15)], mask, 0)

\* to_register: rd', rs1', rs2' name x8..x15.
to_register(x) == (x % 8) + 8

\* A 5-bit register field read as a 3-bit one: x8..x15 only.
as_register_prime(x) == (x % 8) + 8

\* as_register
as_register(x) == x % 32

\* imm[5] | imm[4:0] of C.ADDI, C.ADDIW and C.LI, sign-extended from 6 bits.
CImm6(i) == SextFrom(SarAnd(i, 7, \b100000) + ShrAnd(i, 2, \b11111), 6)

\* Quadrant 00.
DecodeC0(i, funct3) ==
    CASE funct3 = \b000 ->
             \* C.ADDI4SPN; rd is x8..x15 and the rd == 0 test never holds.
             LET rd == to_register(ShrAnd(i, 2, \b111))
                 nzuimm == ShrAnd(i, 7, \b110000) + ShrAnd(i, 1, \b1111000000)
                           + ShrAnd(i, 4, \b100) + ShrAnd(i, 2, \b1000)
             IN  IF rd = 0 THEN UnknownInstruction(i)
                 ELSE Decoded(IType("ADDI", rd, 2, nzuimm))
      [] funct3 = \b010 ->
             LET rd == to_register(ShrAnd(i, 2, \b111))
                 rs1 == to_register(ShrAnd(i, 7, \b111))
                 uimm == ShrAnd(i, 7, \b111000) + ShrAnd(i, 4, \b100)
                         + ShlAnd(i, 1, \b1000000)
             IN  Decoded(LoadType("LW", rd, rs1, uimm))
      [] funct3 = \b011 ->
             LET rd == to_register(ShrAnd(i, 2, \b111))
                 rs1 == to_register(ShrAnd(i, 7, \b111))
                 uimm == ShrAnd(i, 7, \b111000) + ShlAnd(i, 1, \b11000000)
             IN  Decoded(LoadType("LD", rd, rs1, uimm))
      [] funct3 = \b110 ->
             LET rs2 == to_register(ShrAnd(i, 2, \b111))
                 rs1 == to_register(ShrAnd(i, 7, \b111))
                 uimm == ShrAnd(i, 7, \b111000) + ShrAnd(i, 4, \b100)
                         + ShlAnd(i, 1, \b1000000)
             IN  Decoded(StoreType("SW", rs1, rs2, uimm))
      [] funct3 = \b111 ->
             LET rs2 == to_register(ShrAnd(i, 2, \b111))
                 rs1 == to_register(ShrAnd(i, 7, \b111))
                 uimm == ShrAnd(i, 7, \b111000) + ShlAnd(i, 1, \b11000000)
             IN  Decoded(StoreType("SD", rs1, rs2, uimm))
      [] OTHER -> UnknownInstruction(i)      \* C.FLD, C.FSD, reserved

\* funct3 = 0b100 of quadrant 01: C.SRLI, C.SRAI, C.ANDI and the
\* register-register group.
DecodeC1Alu(i) ==
    LET funct2 == ShrAnd(i, 10, \b11)
        rd == to_register(ShrAnd(i, 7, \b111))
        bit12 == ShrAnd(i, 12, 1)
        imm_shamt == ShrAnd(i, 7, \b100000) + ShrAnd(i, 2, \b11111)
        \* (bit12 << 5) | imm_shamt: bit 5 is bit 12 in both operands.
        shamt == imm_shamt
        rs2 == to_register(ShrAnd(i, 2, \b111))
        op_sub == ShrAnd(i, 5, \b11)
    IN  CASE funct2 = \b00 -> Decoded(ShiftType("SRLI", rd, rd, shamt))
          [] funct2 = \b01 -> Decoded(ShiftType("SRAI", rd, rd, shamt))
          [] funct2 = \b10 -> Decoded(IType("ANDI", rd, rd, SextFrom(imm_shamt, 6)))
          [] funct2 = \b11 /\ bit12 = 0 /\ op_sub = \b00 -> Decoded(RType("SUB", rd, rd, rs2))
          [] funct2 = \b11 /\ bit12 = 0 /\ op_sub = \b01 -> Decoded(RType("XOR", rd, rd, rs2))
          [] funct2 = \b11 /\ bit12 = 0 /\ op_sub = \b10 -> Decoded(RType("OR", rd, rd, rs2))
          [] funct2 = \b11 /\ bit12 = 0 /\ op_sub = \b11 -> Decoded(RType("AND", rd, rd, rs2))
          [] funct2 = \b11 /\ bit12 = 1 /\ op_sub = \b00 -> Decoded(RType("SUBW", rd, rd, rs2))
          [] funct2 = \b11 /\ bit12 = 1 /\ op_sub = \b01 -> Decoded(RType("ADDW", rd, rd, rs2))
          [] OTHER -> UnknownInstruction(i)

\* The offset of C.BEQZ and C.BNEZ: offset[8|4:3|7:6|2:1|5], sign-extended
\* from 9 bits.
CBranchOffset(i) ==
    SextFrom(ShrAnd(i, 4, \b100000000) + ShrAnd(i, 7, \b11000)
             + ShlAnd(i, 1, \b11000000) + ShrAnd(i, 2, \b110)
             + ShlAnd(i, 3, \b100000), 9)

\* The offset of C.J without the extension from bit 11.
CJumpOffsetUnextended(i) ==
    ShrAnd(i, 1, \b100000000000) + ShrAnd(i, 7, \b10000)
    + ShrAnd(i, 1, \b1100000000) + ShlAnd(i, 2, \b10000000000)
    + ShrAnd(i, 1, \b1000000) + ShlAnd(i, 1, \b10000000)
    + ShrAnd(i, 2, \b1110) + ShlAnd(i, 3, \b100000)

\* The offset of C.J: offset[11|4|9:8|10|6|7|3:1|5], sign-extended from 12 bits.
CJumpOffset(i) ==
    SextFrom(ShrAnd(i, 1, \b100000000000) + ShrAnd(i, 7, \b10000)
             + ShrAnd(i, 1, \b1100000000) + ShlAnd(i, 2, \b10000000000)
             + ShrAnd(i, 1, \b1000000) + ShlAnd(i, 1, \b10000000)
             + ShrAnd(i, 2, \b1110) + ShlAnd(i, 3, \b100000), 12)

\* Quadrant 01.
DecodeC1(i, funct3) ==
    LET rd == as_register(ShrAnd(i, 7, \b11111))
    IN  CASE funct3 = \b000 ->
               \* C.NOP / C.ADDI
               IF rd = 0 THEN Decoded(IType("ADDI", 0, 0, 0))
               ELSE Decoded(IType("ADDI", rd, rd, CImm6(i)))
          [] funct3 = \b001 ->
               \* C.ADDIW
               IF rd = 0 THEN UnknownInstruction(i)
               ELSE Decoded(IType("ADDIW", rd, rd, CImm6(i)))
          [] funct3 = \b010 ->
               \* C.LI
               IF rd = 0 THEN UnknownInstruction(i)
               ELSE Decoded(IType("ADDI", rd, 0, CImm6(i)))
          [] funct3 = \b011 ->
               IF rd = 2
               THEN \* C.ADDI16SP: nzimm[9|4|6|8:7|5]
                    LET nzimm == SextFrom(ShrAnd(i, 3, \b1000000000) + ShrAnd(i, 2, \b10000)
                                          + ShlAnd(i, 1, \b1000000) + ShlAnd(i, 4, \b110000000)
                                          + ShlAnd(i, 3, \b100000), 10)
                    IN  IF nzimm = 0 THEN UnknownInstruction(i)
                        ELSE Decoded(IType("ADDI", 2, 2, nzimm))
               ELSE IF rd # 0
               THEN \* C.LUI: nzimm[17|16:12]
                    LET nzimm == SextFrom(ShrAnd(i, 7, \b100000) + ShrAnd(i, 2, \b11111), 6)
                    IN  IF nzimm = 0 THEN UnknownInstruction(i)
                        ELSE Decoded(UType("LUI", rd, nzimm * 4096))
               ELSE UnknownInstruction(i)
          [] funct3 = \b100 -> DecodeC1Alu(i)
          [] funct3 = \b101 -> Decoded(JAL(0, CJumpOffset(i)))
          [] funct3 = \b110 ->
               Decoded(BranchType("BEQ", to_register(ShrAnd(i, 7, \b111)), 0, CBranchOffset(i)))
          [] funct3 = \b111 ->
               Decoded(BranchType("BNE", to_register(ShrAnd(i, 7, \b111)), 0, CBranchOffset(i)))
          [] OTHER -> UnknownInstruction(i)

\* funct3 = 0b100 of quadrant 10: C.JR, C.MV, C.EBREAK, C.JALR, C.ADD.
DecodeC2Jump(i) ==
    LET bit12 == ShrAnd(i, 12, 1)
        rs1 == as_register(ShrAnd(i, 7, \b11111))
        rs2 == as_register(ShrAnd(i, 2, \b11111))
    IN  IF bit12 = 0
        THEN IF rs1 = 0 THEN UnknownInstruction(i)
             ELSE IF rs2 = 0 THEN Decoded(JALR(0, rs1, 0))
             ELSE Decoded(RType("ADD", rs1, 0, rs2))
        ELSE IF rs2 = 0
             THEN IF rs1 = 0 THEN Decoded(EBREAK) ELSE Decoded(JALR(1, rs1, 0))
             ELSE IF rs1 = 0 THEN UnknownInstruction(i)
             ELSE Decoded(RType("ADD", rs1, rs1, rs2))

\* Quadrant 10.
DecodeC2(i, funct3) ==
    LET rd == as_register(ShrAnd(i, 7, \b11111))
        rs2 == as_register(ShrAnd(i, 2, \b11111))
    IN  CASE funct3 = \b000 ->
               \* C.SLLI
               IF rd = 0 THEN UnknownInstruction(i)
               ELSE Decoded(ShiftType("SLLI", rd, rd,
                                      ShrAnd(i, 7, \b100000) + ShrAnd(i, 2, \b11111)))
          [] funct3 = \b010 ->
               \* C.LWSP: uimm[5|4:2|7:6]
               IF rd = 0 THEN UnknownInstruction(i)
               ELSE Decoded(LoadType("LW", rd, 2,
                                     ShrAnd(i, 7, \b100000) + ShrAnd(i, 2, \b11100)
                                     + ShlAnd(i, 4, \b11000000)))
          [] funct3 = \b011 ->
               \* C.LDSP: uimm[5|4:3|8:6]
               IF rd = 0 THEN UnknownInstruction(i)
               ELSE Decoded(LoadType("LD", rd, 2,
                                     ShrAnd(i, 7, \b100000) + ShrAnd(i, 2, \b11000)
                                     + ShlAnd(i, 4, \b111000000)))
          [] funct3 = \b100 -> DecodeC2Jump(i)
          [] funct3 = \b110 ->
               \* C.SWSP: uimm[5:2|7:6]
               Decoded(StoreType("SW", 2, rs2,
                                 ShrAnd(i, 7, \b111100) + ShrAnd(i, 1, \b11000000)))
          [] funct3 = \b111 ->
               \* C.SDSP: uimm[5:3|8:6]
               Decoded(StoreType("SD", 2, rs2,
                                 ShrAnd(i, 7, \b111000) + ShrAnd(i, 1, \b111000000)))
          [] OTHER -> UnknownInstruction(i)  \* C.FLDSP, C.FSDSP

\* decode_compressed: instruction is a u16, carried here zero-extended; an
\* Err carries `instruction as RawInstruction`.
DecodeCompressed(instruction) ==
    LET opcode == ShrAnd(instruction, 0, \b11)
        funct3 == ShrAnd(instruction, 13, \b111)
    IN  CASE opcode = \b00 -> DecodeC0(instruction, funct3)
          [] opcode = \b01 -> DecodeC1(instruction, funct3)
          [] opcode = \b10 -> DecodeC2(instruction, funct3)
          [] OTHER -> UnknownInstruction(instruction)

-----------------------------------------------------------------------------
(* Cpu (cpu.rs): registers, fetch and execute.                             *)

\* A write that stores into index 0 like into any other.
write_register_unguarded(regs, index, value) == [regs EXCEPT ![index] = value]

\* Cpu::write_register
write_register(regs, index, value) ==
    IF index = 0 THEN regs ELSE [regs EXCEPT ![index] = value]

\* Cpu::read_register
read_register(regs, index) == IF index = 0 THEN Zero ELSE regs[index]

\* Cpu::fetch: four bytes at pc; the pc moves on by 4 when the read succeeds.
Fetch(data, pcv) ==
    LET r == BusRead(data, pcv, 4)
    IN  [result |-> r.result, value |-> r.value, payload |-> r.payload,
         pc |-> IF r.result = "Ok" THEN AddW(pcv, FromNat(4)) ELSE pcv]

\* `if c { 1 } else { 0 }`
Flag(c) == IF c THEN One ELSE Zero

\* `x as i64 as u64` for a 32-bit x: signed x extends by its sign, unsigned x
\* by zeros.
FromI32(x) == Widen(x, WordLen, TRUE)
FromU32(x) == Widen(x, WordLen, FALSE)

\* A quotient that saturates: the largest value of the width on overflow.
DivOverflowSaturated(dividend) == NotW(dividend)

\* DIV and DIVW on overflow (the most negative dividend, divisor -1): the
\* dividend is what is written.
DivOverflow(dividend) == dividend

\* A count masked as the word forms mask theirs: `& 0b11111`.
ShiftCountOfWordForm(b) == Field(b, 0, 5)

\* `self.read_register(rs2) & 0x3f`: the count of SLL, SRL and SRA.
ShiftCount(b) == Field(b, 0, 6)

\* execute, the RV32I and RV32M register-register arms: the value written
\* to rd from the values a and b of rs1 and rs2.
AluR(op, a, b) ==
    CASE op = "ADD" -> AddW(a, b)
      [] op = "SUB" -> SubW(a, b)
      [] op = "SLL" -> ShlW(a, ShiftCount(b))
      [] op = "SLT" -> Flag(LtS(a, b))
      [] op = "SLTU" -> Flag(LtU(a, b))
      [] op = "XOR" -> XorW(a, b)
      [] op = "SRL" -> ShrW(a, ShiftCount(b))
      [] op = "SRA" -> SarW(a, ShiftCount(b))
      [] op = "OR" -> OrW(a, b)
      [] op = "AND" -> AndW(a, b)
      [] op = "MUL" -> MulW(a, b)
      [] op = "MULH" ->
           High64(MulW(Widen(a, 2 * WordLen, TRUE), Widen(b, 2 * WordLen, TRUE)))
      [] op = "MULHSU" ->
           High64(MulW(Widen(a, 2 * WordLen, TRUE), Widen(b, 2 * WordLen, FALSE)))
      [] op = "MULHU" ->
           High64(MulW(Widen(a, 2 * WordLen, FALSE), Widen(b, 2 * WordLen, FALSE)))
      [] op = "DIV" ->
           IF b = Zero THEN AllOnes
           ELSE IF a = MinOf(WordLen) /\ b = AllOnes THEN DivOverflow(a)
           ELSE DivS(a, b)
      [] op = "DIVU" -> IF b = Zero THEN AllOnes ELSE DivU(a, b)
      [] op = "REM" ->
           IF b = Zero THEN a
           ELSE IF a = MinOf(WordLen) /\ b = AllOnes THEN Zero
           ELSE RemS(a, b)
      [] op = "REMU" -> IF b = Zero THEN a ELSE RemU(a, b)

\* execute, the RV64I and RV64M word arms, on the low halves x and y of rs1
\* and rs2.
AluW(op, x, y) ==
    CASE op = "ADDW" -> FromI32(AddW(x, y))
      [] op = "SUBW" -> FromI32(SubW(x, y))
      [] op = "SLLW" -> FromI32(ShlW(x, Field(y, 0, 5)))
      [] op = "SRLW" -> FromI32(ShrW(x, Field(y, 0, 5)))
      [] op = "SRAW" -> FromI32(SarW(x, Field(y, 0, 5)))
      [] op = "MULW" -> FromI32(MulW(x, y))
      [] op = "DIVW" ->
           IF y = ZeroOf(4) THEN FromU32(MinusOne(4))
           ELSE IF x = MinOf(4) /\ y = MinusOne(4) THEN FromI32(DivOverflow(x))
           ELSE FromI32(DivS(x, y))
      [] op = "DIVUW" ->
           IF y = ZeroOf(4) THEN FromU32(MinusOne(4)) ELSE FromU32(DivU(x, y))
      [] op = "REMW" ->
           IF y = ZeroOf(4) THEN FromI32(x)
           ELSE IF x = MinOf(4) /\ y = MinusOne(4) THEN Zero
           ELSE FromI32(RemS(x, y))
      [] op = "REMUW" ->
           IF y = ZeroOf(4) THEN FromU32(x) ELSE FromU32(RemU(x, y))

\* execute, the immediate arms.
AluI(op, a, imm) ==
    CASE op = "ADDI" -> AddW(a, FromInt(imm))
      [] op = "SLTI" -> Flag(LtS(a, FromInt(imm)))
      [] op = "SLTIU" -> Flag(LtU(a, FromInt(imm)))
      [] op = "XORI" -> XorW(a, FromInt(imm))
      [] op = "ORI" -> OrW(a, FromInt(imm))
      [] op = "ANDI" -> AndW(a, FromInt(imm))
      [] op = "ADDIW" -> FromI32(AddW(Low32(a), Low32(FromInt(imm))))

\* execute, the shift-by-immediate arms. SRLIW widens its u32 result through
\* i64, which extends it by zeros.
AluShift(op, a, shamt) ==
    CASE op = "SLLI" -> ShlW(a, shamt)
      [] op = "SRLI" -> ShrW(a, shamt)
      [] op = "SRAI" -> SarW(a, shamt)
      [] op = "SLLIW" -> FromI32(ShlW(Low32(a), shamt))
      [] op = "SRLIW" -> FromU32(ShrW(Low32(a), shamt))
      [] op = "SRAIW" -> FromI32(SarW(Low32(a), shamt))

ROps ==
    {"ADD", "SUB", "SLL", "SLT", "SLTU", "XOR", "SRL", "SRA", "OR", "AND",
     "MUL", "MULH", "MULHSU", "MULHU", "DIV", "DIVU", "REM", "REMU"}
WOps ==
    {"ADDW", "SUBW", "SLLW", "SRLW", "SRAW", "MULW", "DIVW", "DIVUW", "REMW",
     "REMUW"}
IOps == {"ADDI", "SLTI", "SLTIU", "XORI", "ORI", "ANDI", "ADDIW"}
ShiftOps == {"SLLI", "SRLI", "SRAI", "SLLIW", "SRLIW", "SRAIW"}
LoadOps == {"LB", "LH", "LW", "LBU", "LHU", "LD", "LWU"}
StoreOps == {"SB", "SH", "SW", "SD"}
BranchOps == {"BEQ", "BNE", "BLT", "BGE", "BLTU", "BGEU"}

\* Every access made with the size of the byte arms.
AccessSizeOfByteArm(op) == 1

\* The size a load or store hands to the Bus.
AccessSize(op) ==
    CASE op \in {"LB", "LBU", "SB"} -> 1
      [] op \in {"LH", "LHU", "SH"} -> 2
      [] op \in {"LW", "LWU", "SW"} -> 4
      [] op \in {"LD", "SD"} -> 8

\* A load that widens every value by zeros.
LoadedUnsigned(op, val) == val

\* What a load writes to rd from the value the Bus returned.
Loaded(op, val) ==
    IF op \in {"LB", "LH", "LW"} THEN SignExt(val, AccessSize(op)) ELSE val

\* Branch arms that all carry the condition of the BEQ arm.
BranchTakenAsBeq(op, a, b) == a = b

\* The predicate of a branch on the values a and b of rs1 and rs2.
BranchTaken(op, a, b) ==
    CASE op = "BEQ" -> a = b
      [] op = "BNE" -> a # b
      [] op = "BLT" -> LtS(a, b)
      [] op = "BGE" -> ~LtS(a, b)
      [] op = "BLTU" -> LtU(a, b)
      [] op = "BGEU" -> ~LtU(a, b)

\* A target taken from the pc as fetch left it, without stepping back.
TargetNoStepBack(pcv, offset) == AddW(pcv, FromInt(offset))

\* (self.pc - 4).wrapping_add(offset as u64): the target of a taken branch,
\* of JAL and the base of AUIPC, from the pc as fetch left it.
Target(pcv, offset) == AddW(SubW(pcv, FromNat(4)), FromInt(offset))

\* (rs1 + offset) & !1
JalrTarget(a, offset) ==
    LET t == AddW(a, FromInt(offset))
    IN  [t EXCEPT ![1] = t[1] - (t[1] % 2)]

\* The outcome of execute: the Result, and the hart as the call leaves it.
Outcome(result, payload, regs, pcv, data) ==
    [result |-> result, payload |-> payload, registers |-> regs, pc |-> pcv,
     memory |-> data]

\* A load arm that writes rd before it looks at the Result of the read.
LoadOutcomeUnchecked(op, r, regs, rd, pcv, data) ==
    Outcome(r.result, r.payload, write_register(regs, rd, Loaded(op, r.value)),
            pcv, data)

\* A load arm from the Result r of bus.read on: `?` returns the Err before
\* write_register is reached.
LoadOutcome(op, r, regs, rd, pcv, data) ==
    IF r.result = "Ok"
    THEN Outcome("Ok", Zero, write_register(regs, rd, Loaded(op, r.value)),
                 pcv, data)
    ELSE Outcome(r.result, r.payload, regs, pcv, data)

\* Cpu::execute, with pcv the pc as fetch left it.
Execute(regs, pcv, data, inst) ==
    LET op == inst.op
        a == read_register(regs, inst.rs1)
        b == read_register(regs, inst.rs2)
        Wrote(value) ==
            Outcome("Ok", Zero, write_register(regs, inst.rd, value), pcv, data)
    IN  CASE op \in ROps -> Wrote(AluR(op, a, b))
          [] op \in WOps -> Wrote(AluW(op, Low32(a), Low32(b)))
          [] op \in IOps -> Wrote(AluI(op, a, inst.imm))
          [] op \in ShiftOps -> Wrote(AluShift(op, a, inst.shamt))
          [] op \in LoadOps ->
               LoadOutcome(op,
                           BusRead(data, AddW(a, FromInt(inst.offset)),
                                   AccessSize(op)),
                           regs, inst.rd, pcv, data)
          [] op \in StoreOps ->
               LET r == BusWrite(data, AddW(a, FromInt(inst.offset)), b,
                                 AccessSize(op))
               IN  Outcome(r.result, r.payload, regs, pcv, r.data)
          [] op \in BranchOps ->
               Outcome("Ok", Zero, regs,
                       IF BranchTaken(op, a, b) THEN Target(pcv, inst.offset)
                       ELSE pcv,
                       data)
          [] op = "LUI" -> Wrote(FromInt(inst.imm))
          [] op = "AUIPC" -> Wrote(Target(pcv, inst.imm))
          [] op = "JAL" ->
               Outcome("Ok", Zero, write_register(regs, inst.rd, pcv),
                       Target(pcv, inst.offset), data)
          [] op = "JALR" ->
               Outcome("Ok", Zero, write_register(regs, inst.rd, pcv),
                       JalrTarget(a, inst.offset), data)
          [] op = "EBREAK" -> Outcome("Ok", Zero, regs, pcv, data)

\* A width test that looks at bit 0 alone.
IsCompressedBit0(instruction) == Field(instruction, 0, 1) # 1

\* `instruction & 0b11 != 0b11`: the parcel goes to decode_compressed.
IsCompressed(instruction) == Field(instruction, 0, 2) # 3

\* The bytes of the parcel that was decoded.
Width(instruction) == IF IsCompressed(instruction) THEN 2 ELSE 4

\* `instruction as RawShortInstruction`
Short(instruction) == Widen(SubSeq(instruction, 1, 2), WordLen, FALSE)

\* The decoder the low two bits of the parcel select, applied to it.
Select(instruction) ==
    IF IsCompressed(instruction)
    THEN DecodeCompressed(Short(instruction))
    ELSE Decode(instruction)

\* What a turn of the loop leaves: the Result, the hart, and the parcel and
\* instruction the turn worked on.
Turn(result, payload, regs, pcv, data, parcel, inst) ==
    [result |-> result, payload |-> payload, registers |-> regs, pc |-> pcv,
     memory |-> data, parcel |-> parcel, inst |-> inst]

\* cpu.execute(ctx)?
Executed(e, parcel, inst) ==
    Turn(e.result, e.payload, e.registers, e.pc, e.memory, parcel, inst)

\* The loop from the decoder's answer d on: `?`, the break at EBREAK, execute.
Dispatch(regs, data, f, d) ==
    IF ~d.ok
    THEN Turn("UnknownInstruction", d.payload, regs, f.pc, data, f.value, d.inst)
    ELSE IF d.inst.op = "EBREAK"
    THEN Turn("ebreak", Zero, regs, f.pc, data, f.value, d.inst)
    ELSE Executed(Execute(regs, f.pc, data, d.inst), f.value, d.inst)

\* The loop from fetch's answer f on: `?`, then the decoder the low two bits
\* of the parcel select.
Fetched(regs, data, f) ==
    IF f.result # "Ok"
    THEN Turn(f.result, f.payload, regs, f.pc, data, Zero, NoInst)
    ELSE Dispatch(regs, data, f, Select(f.value))

\* One turn of the driver's loop (run_vm): fetch, decode by the low two bits,
\* stop at EBREAK, execute. result is "Ok", "ebreak" (the loop ends), an
\* Exception's name (the loop returns it) or "abort" (a panic).
CycleOf(regs, pcv, data) == Fetched(regs, data, Fetch(data, pcv))

-----------------------------------------------------------------------------
(* Construction: Memory::new, Bus::new, Csr::new, Cpu::new.                *)

NoOp == [op |-> "none"]

Init ==
    /\ registers = [i \in 0..31 |-> Zero]
    /\ pc = MEM_BASE
    /\ memory = MemoryNew(MemSize)
    /\ csr = CsrNew
    /\ status = "running"
    /\ last = NoOp
    /\ prev = NoOp
    /\ steps = 0
    /\ mstatus = Zero

-----------------------------------------------------------------------------
(* The Bus driven directly.                                                *)

AccessSizes == {1, 2, 4, 8}

\* Addresses just below the base, at the base, three bytes before the end of
\* the buffer, and at the top of the address space.
BusAddrs ==
    { <<255, 255, 255, 127, 0, 0, 0, 0>>,
      MEM_BASE,
      AddW(MEM_BASE, FromNat(MemSize - 3)),
      AllOnes }

BusValues ==
    { <<239, 205, 171, 137, 103, 69, 35, 1>>,     \* 0x0123_4567_89AB_CDEF
      <<128, 255, 0, 128, 255, 255, 0, 128>> }

StatusAfter(result) ==
    IF result = "abort" THEN "abort" ELSE "running"

DoBusWrite(addr, value, size) ==
    /\ status = "running"
    /\ steps < MaxOps
    /\ LET r == BusWrite(memory, addr, value, size)
       IN  /\ memory' = r.data
           /\ status' = StatusAfter(r.result)
           /\ last' = [op |-> "bus.write", addr |-> addr, size |-> size,
                       value |-> value, result |-> r.result,
                       payload |-> r.payload, presented |-> r.presented,
                       before |-> memory]
    /\ prev' = last
    /\ steps' = steps + 1
    /\ UNCHANGED <<registers, pc, csr, mstatus>>

DoBusRead(addr, size) ==
    /\ status = "running"
    /\ steps < MaxOps
    /\ LET r == BusRead(memory, addr, size)
       IN  /\ status' = StatusAfter(r.result)
           /\ last' = [op |-> "bus.read", addr |-> addr, size |-> size,
                       value |-> r.value, result |-> r.result,
                       payload |-> r.payload, presented |-> r.presented,
                       before |-> memory]
    /\ prev' = last
    /\ steps' = steps + 1
    /\ UNCHANGED <<registers, pc, memory, csr, mstatus>>

BusNext ==
    \/ \E a \in BusAddrs, v \in BusValues, s \in AccessSizes : DoBusWrite(a, v, s)
    \/ \E a \in BusAddrs, s \in AccessSizes : DoBusRead(a, s)

BusSpec == Init /\ [][BusNext]_vars

IsBusOp(o) == o.op \in {"bus.read", "bus.write"}

\* The span [addr, addr + size) lies inside [MEM_BASE, MEM_BASE + MemSize).
SpanInside(addr, size) ==
    /\ ~LtU(addr, MEM_BASE)
    /\ \A i \in 0..(size - 1) :
          LtU(AddW(SubW(addr, MEM_BASE), FromNat(i)), FromNat(MemSize))

\* C3: a Bus read or write succeeds only when addr >= 0x8000_0000 and the
\* whole span lies inside Memory, and an access at or above the base whose
\* span overruns the buffer returns InvalidMemoryAccess(addr) without
\* aborting and without touching memory.
C3_OverrunIsAnError ==
    IsBusOp(last) =>
        /\ last.result = "Ok" => SpanInside(last.addr, last.size)
        /\ (~LtU(last.addr, MEM_BASE) /\ ~SpanInside(last.addr, last.size)) =>
              /\ last.result = "InvalidMemoryAccess"
              /\ last.payload = last.addr
              /\ status # "abort"
              /\ memory = last.before

\* C4: a Bus read or write below 0x8000_0000 returns
\* InvalidMemoryAccess(addr) and leaves Memory alone, and no address below
\* the base is ever presented to Memory.
C4_BelowBaseNeverPresented ==
    IsBusOp(last) =>
        /\ \A a \in last.presented : ~LtU(a, MEM_BASE)
        /\ LtU(last.addr, MEM_BASE) =>
              /\ last.result = "InvalidMemoryAccess"
              /\ last.payload = last.addr
              /\ last.presented = {}
              /\ memory = last.before
              /\ status = "running"

\* A write below the base issued after a write that stored something.
C4_Witness ==
    /\ last.op = "bus.write"
    /\ last.addr = <<255, 255, 255, 127, 0, 0, 0, 0>>
    /\ prev.op = "bus.write"
    /\ prev.result = "Ok"
    /\ memory # MemoryNew(MemSize)

\* A successful read that follows a successful write of the same span.
ReadAfterWrite ==
    /\ last.op = "bus.read"
    /\ last.result = "Ok"
    /\ prev.op = "bus.write"
    /\ prev.result = "Ok"
    /\ prev.addr = last.addr
    /\ prev.size = last.size

\* C5: write(a, v, s) followed by read(a, s), the span inside memory, returns
\* v mod 2^(8s): the low s bytes of v, the upper bits zero.
C5_WriteReadRoundTrip ==
    ReadAfterWrite =>
        /\ \A i \in 0..(8 * last.size - 1) : BitOf(last.value, i) = BitOf(prev.value, i)
        /\ \A i \in (8 * last.size)..63 : BitOf(last.value, i) = 0

\* A 2-byte round trip at the end of the buffer, which drops upper bytes of v.
C5_Witness ==
    /\ ReadAfterWrite
    /\ last.size = 2
    /\ last.addr = AddW(MEM_BASE, FromNat(MemSize - 3))
    /\ last.value # prev.value

-----------------------------------------------------------------------------
(* The Csr file driven directly.                                           *)

\* mstatus (0x300), misa (0x301), mhartid (0xF14), and the first u16 past the
\* array (0x1000).
CsrAddrs == {768, 769, 833, 3860, 4096}

CsrValues ==
    { <<5, 17, 20, 0, 0, 0, 0, 128>>,             \* 0x8000_0000_0014_1105
      AllOnes,
      Zero }

CsrImms == {0, 21}

\* What a driver operation on the Csr file did: op, its arguments, the Result
\* it returned, and the file before it.
CsrDone(name, addr, arg, r) ==
    /\ status = "running"
    /\ steps < MaxOps
    /\ csr' = r.data
    /\ status' = StatusAfter(r.result)
    /\ last' = [op |-> name, addr |-> addr, arg |-> arg, result |-> r.result,
                value |-> r.value, payload |-> r.payload, before |-> csr]
    /\ prev' = last
    /\ steps' = steps + 1
    /\ UNCHANGED <<registers, pc, memory, mstatus>>

DoCsrRead(addr) ==
    LET r == CsrRead(csr, addr)
    IN  CsrDone("csr.read", addr, Zero,
                [result |-> r.result, value |-> r.value, payload |-> r.payload,
                 data |-> csr])

DoCsrWrite(addr, val) ==
    LET w == CsrWrite(csr, addr, val)
    IN  CsrDone("csr.write", addr, val,
                [result |-> IF w.abort THEN "abort" ELSE "Ok", value |-> Zero,
                 payload |-> 0, data |-> w.data])

DoCsrExecuteRw(addr, val) ==
    CsrDone("csr.execute_rw", addr, val, CsrExecuteRw(csr, addr, val))

DoCsrExecuteRs(addr, val) ==
    CsrDone("csr.execute_rs", addr, val, CsrExecuteRs(csr, addr, val))

DoCsrExecuteRc(addr, val) ==
    CsrDone("csr.execute_rc", addr, val, CsrExecuteRc(csr, addr, val))

DoCsrExecuteRwi(addr, imm) ==
    CsrDone("csr.execute_rwi", addr, FromNat(imm), CsrExecuteRwi(csr, addr, imm))

DoCsrExecuteRsi(addr, imm) ==
    CsrDone("csr.execute_rsi", addr, FromNat(imm), CsrExecuteRsi(csr, addr, imm))

DoCsrExecuteRci(addr, imm) ==
    CsrDone("csr.execute_rci", addr, FromNat(imm), CsrExecuteRci(csr, addr, imm))

CsrNext ==
    \/ \E a \in CsrAddrs : DoCsrRead(a)
    \/ \E a \in CsrAddrs, v \in CsrValues : DoCsrWrite(a, v)
    \/ \E a \in CsrAddrs, v \in CsrValues : DoCsrExecuteRw(a, v)
    \/ \E a \in CsrAddrs, v \in CsrValues : DoCsrExecuteRs(a, v)
    \/ \E a \in CsrAddrs, v \in CsrValues : DoCsrExecuteRc(a, v)
    \/ \E a \in CsrAddrs, i \in CsrImms : DoCsrExecuteRwi(a, i)
    \/ \E a \in CsrAddrs, i \in CsrImms : DoCsrExecuteRsi(a, i)
    \/ \E a \in CsrAddrs, i \in CsrImms : DoCsrExecuteRci(a, i)

CsrSpec == Init /\ [][CsrNext]_vars

\* C10: after any sequence of Csr writes and read-modify-write operations,
\* read(0xF14) (mhartid) returns 0 and read(0x301) (misa) returns a value whose
\* top two bits are 0b10 (XLEN = 64) and whose I (bit 8), M (bit 12) and
\* C (bit 2) extension bits are set.
C10_PinnedCsrs ==
    LET hartid == CsrRead(csr, 3860)
        misa == CsrRead(csr, 769)
    IN  /\ hartid.result = "Ok"
        /\ hartid.value = Zero
        /\ misa.result = "Ok"
        /\ BitOf(misa.value, 63) = 1
        /\ BitOf(misa.value, 62) = 0
        /\ BitOf(misa.value, 8) = 1
        /\ BitOf(misa.value, 12) = 1
        /\ BitOf(misa.value, 2) = 1

IsCsrOp(l) ==
    l.op \in {"csr.read", "csr.write", "csr.execute_rw", "csr.execute_rs",
              "csr.execute_rc", "csr.execute_rwi", "csr.execute_rsi",
              "csr.execute_rci"}

\* The addresses of the driver that are neither mhartid nor misa and lie in
\* the file.
PlainAddrs == {a \in CsrAddrs : a < CSR_LEN /\ a # 3860 /\ a # 769}

\* The value the operation l leaves at its address, from the value old that
\* stood there before it.
Stored(l, old) ==
    CASE l.op \in {"csr.write", "csr.execute_rw", "csr.execute_rwi"} -> l.arg
      [] l.op \in {"csr.execute_rs", "csr.execute_rsi"} -> OrW(old, l.arg)
      [] l.op \in {"csr.execute_rc", "csr.execute_rci"} ->
            AndW(old, NotW(l.arg))
      [] OTHER -> old

\* C11: at every address other than mhartid and misa, read returns 0 before
\* any write, and after each operation it returns, at the address of the
\* operation, the value the operation wrote there, and at every other address
\* the value it returned before the operation: a write to b never changes
\* what is read at a different address a.
C11_PlainStorage ==
    /\ last = NoOp =>
            \A a \in PlainAddrs : CsrRead(csr, a).value = Zero
    /\ (IsCsrOp(last) /\ last.result = "Ok") =>
            \A a \in PlainAddrs :
                /\ CsrRead(csr, a).result = "Ok"
                /\ CsrRead(csr, a).value =
                       IF a = last.addr
                       THEN Stored(last, CsrRead(last.before, a).value)
                       ELSE CsrRead(last.before, a).value

\* Two writes to two different plain addresses, the first still read back.
C11_Witness ==
    /\ last.op = "csr.write" /\ prev.op = "csr.write"
    /\ last.result = "Ok" /\ prev.result = "Ok"
    /\ last.addr \in PlainAddrs /\ prev.addr \in PlainAddrs
    /\ last.addr # prev.addr
    /\ prev.arg # Zero
    /\ CsrRead(csr, prev.addr).value = prev.arg
    /\ CsrRead(csr, last.addr).value = last.arg

\* C12: every operation of the Csr file returns Ok on an address in 0..4095;
\* on an address outside the 12-bit range it fails with InvalidCsrAccess
\* carrying that address and leaves the file unchanged; none aborts.
C12_CsrOperationsTotal ==
    IsCsrOp(last) =>
        /\ last.result # "abort"
        /\ status # "abort"
        /\ last.addr < CSR_LEN => last.result = "Ok"
        /\ last.addr >= CSR_LEN =>
                /\ last.result = "InvalidCsrAccess"
                /\ last.payload = last.addr
                /\ csr = last.before

\* The last operation was one of the six read-modify-write operations and
\* returned Ok.
ReadModifyWrote ==
    /\ last.op \in {"csr.execute_rw", "csr.execute_rs", "csr.execute_rc",
                    "csr.execute_rwi", "csr.execute_rsi", "csr.execute_rci"}
    /\ last.result = "Ok"

\* The bit an operation leaves from the bit old that stood there and the
\* bit src of its source.
BitLeft(op, old, src) ==
    CASE op \in {"csr.execute_rw", "csr.execute_rwi"} -> src
      [] op \in {"csr.execute_rs", "csr.execute_rsi"} ->
            IF old = 1 \/ src = 1 THEN 1 ELSE 0
      [] op \in {"csr.execute_rc", "csr.execute_rci"} ->
            IF old = 1 /\ src = 0 THEN 1 ELSE 0

\* C25: the CSR read-modify-write operations return the value the CSR held
\* before the operation and store the source for CSRRW/CSRRWI, old OR source
\* for CSRRS/CSRRSI, and old AND NOT source for CSRRC/CSRRCI; an immediate
\* source is the 5-bit field extended by zeros; a set or clear whose source
\* is zero leaves the CSR file unchanged; no other CSR changes.
C25_CsrReadModifyWrite ==
    ReadModifyWrote =>
        /\ last.value = CsrEntry(last.before, last.addr)
        /\ \A i \in 0..63 :
              BitOf(CsrEntry(csr, last.addr), i) =
                  BitLeft(last.op, BitOf(CsrEntry(last.before, last.addr), i),
                          BitOf(last.arg, i))
        /\ \A a \in CsrAddrs \ {last.addr} :
              CsrEntry(csr, a) = CsrEntry(last.before, a)
        /\ last.op \in {"csr.execute_rwi", "csr.execute_rsi", "csr.execute_rci"} =>
              /\ last.arg[1] < 32
              /\ \A j \in 2..8 : last.arg[j] = 0
        /\ (last.op \notin {"csr.execute_rw", "csr.execute_rwi"} /\ last.arg = Zero) =>
              csr = last.before

\* CSRRCI with the immediate 21 on an mstatus that held
\* 0x8000_0000_0014_1105: the old value came back and bits 0, 2 and 4 are
\* cleared.
C25_Witness ==
    /\ ReadModifyWrote
    /\ last.op = "csr.execute_rci"
    /\ last.addr = 768
    /\ last.arg = <<21, 0, 0, 0, 0, 0, 0, 0>>
    /\ last.value = <<5, 17, 20, 0, 0, 0, 0, 128>>
    /\ CsrEntry(csr, 768) = <<0, 17, 20, 0, 0, 0, 0, 128>>

-----------------------------------------------------------------------------
(* The hart driven through its loop: an image is loaded through the Bus,   *)
(* registers are seeded with write_register, and the loop turns.           *)

\* Images, as the bytes `code` holds.
Programs ==
    << \* mv t0,a0; li a0,0; li t1,1; beqz t0,20 (the head of main's image)
       <<147, 2, 5, 0, 19, 5, 0, 0, 19, 3, 16, 0, 99, 138, 2, 0>>,
       \* beq x5,x10,8; blt x5,x10,-4; bltu x5,x10,0; bge x5,x10,8
       <<99, 132, 162, 0, 227, 206, 162, 254, 99, 224, 162, 0, 99, 212, 162, 0>>,
       \* bne x5,x10,8; bgeu x5,x10,8; beq x0,x0,0
       <<99, 148, 162, 0, 99, 244, 162, 0, 99, 0, 0, 0>>,
       \* jal x0,0
       <<111, 0, 0, 0>>,
       \* jal x1,0
       <<239, 0, 0, 0>>,
       \* jal x1,8; (zeros); jal x5,-8
       <<239, 0, 128, 0, 0, 0, 0, 0, 239, 242, 159, 255>>,
       \* jalr x5,x5,4; jalr x0,x1,0
       <<231, 130, 66, 0, 103, 128, 0, 0>>,
       \* sd x10,0(x5); ld x8,0(x5); lb x1,0(x0)
       <<35, 176, 162, 0, 3, 180, 2, 0, 131, 0, 0, 0>>,
       \* a parcel no decoder accepts
       <<255, 255, 255, 255>>,
       \* c.j 0
       <<1, 160>>,
       \* c.li a0,1; (zeros); c.ebreak
       <<5, 69, 0, 0, 2, 144>>,
       \* c.beqz x8,4; (zeros); c.bnez x8,-4
       <<17, 192, 0, 0, 117, 252>>,
       \* c.jalr x5; (zeros); c.jr x1
       <<130, 146, 0, 0, 130, 128>>,
       \* auipc x5,0xFFFFF; lui x8,0x80000; auipc x1,0x7FFFF; lui x10,0x12345
       <<151, 242, 255, 255, 55, 4, 0, 128, 151, 240, 255, 127, 55, 85, 52, 18>>,
       \* lui x0,0xFFFFF; auipc x0,0x1; lui x5,0x1; auipc x10,0x80000
       <<55, 240, 255, 255, 23, 16, 0, 0, 183, 18, 0, 0, 23, 5, 0, 128>> >>

\* Registers the driver seeds, and the values it seeds them with.
SeedRegisters == {0, 1, 5, 8, 10}
SeedValues ==
    { One, AllOnes, <<8, 0, 0, 128, 0, 0, 0, 0>> }      \* 1, -1, 0x8000_0008

\* main's loading loop: bus.write(0x8000_0000 + i, code[i], 1).unwrap() for
\* the bytes of code from index i on (i counts from 1 here).
RECURSIVE LoadBytes(_, _, _)
LoadBytes(data, code, i) ==
    IF i > Len(code) THEN [result |-> "Ok", data |-> data]
    ELSE LET r == BusWrite(data, AddW(MEM_BASE, FromNat(i - 1)),
                           FromNat(code[i]), 1)
         IN  IF r.result = "Ok"
             THEN LoadBytes(r.data, code, i + 1)
             ELSE [result |-> r.result, data |-> r.data]

LoadProgram(p) ==
    /\ status = "running"
    /\ last = NoOp
    /\ \E r \in {LoadBytes(memory, Programs[p], 1)} :
           /\ memory' = r.data
           /\ status' = IF r.result = "Ok" THEN "running" ELSE "abort"
    /\ last' = [op |-> "load", program |-> p]
    /\ prev' = last
    /\ UNCHANGED <<registers, pc, csr, steps, mstatus>>

WriteRegister(index, value) ==
    /\ status = "running"
    /\ steps < MaxSeeds
    /\ registers' = write_register(registers, index, value)
    /\ last' = [op |-> "write_register", index |-> index, value |-> value,
                before |-> registers]
    /\ prev' = last
    /\ steps' = steps + 1
    /\ UNCHANGED <<pc, memory, csr, status, mstatus>>

\* How the loop goes on after a turn.
StatusOf(result) ==
    CASE result = "Ok" -> "running"
      [] result = "ebreak" -> "halted"
      [] result = "abort" -> "abort"
      [] OTHER -> "error"

Cycle ==
    /\ status = "running"
    /\ steps < MaxCycles
    /\ \E c \in {CycleOf(registers, pc, memory)} :
           /\ registers' = c.registers
           /\ pc' = c.pc
           /\ memory' = c.memory
           /\ status' = StatusOf(c.result)
           /\ last' = [op |-> "cycle", pc |-> pc, parcel |-> c.parcel,
                       inst |-> c.inst, result |-> c.result,
                       payload |-> c.payload, before |-> registers]
    /\ prev' = last
    /\ steps' = steps + 1
    /\ UNCHANGED <<csr, mstatus>>

Next ==
    \/ \E p \in DOMAIN Programs : LoadProgram(p)
    \/ \E i \in SeedRegisters, v \in SeedValues : WriteRegister(i, v)
    \/ Cycle

Spec == Init /\ [][Next]_vars

-----------------------------------------------------------------------------
(* Properties of the hart.                                                 *)

IsCycle(o) == o.op = "cycle"
OkCycle(o) == o.op = "cycle" /\ o.result = "Ok"
FailedCycle(o) ==
    /\ o.op = "cycle"
    /\ o.result \in {"UnknownInstruction", "InvalidMemoryAccess", "InvalidCsrAccess"}

\* The address a turn started at, plus the width of the parcel it decoded.
NextParcel(o) == AddW(o.pc, FromNat(Width(o.parcel)))

\* The address a turn started at, plus a sign-extended offset, modulo 2^64.
Displaced(o, offset) == AddW(o.pc, FromInt(offset))

\* The value a register held when the turn started.
Held(o, index) == IF index = 0 THEN Zero ELSE o.before[index]

\* The branch predicates: equality, signed order for BLT and BGE, unsigned
\* order for BLTU and BGEU.
PredicateHolds(o) ==
    LET a == Held(o, o.inst.rs1)
        b == Held(o, o.inst.rs2)
    IN  \/ o.inst.op = "BEQ" /\ a = b
        \/ o.inst.op = "BNE" /\ a # b
        \/ o.inst.op = "BLT" /\ LtS(a, b)
        \/ o.inst.op = "BGE" /\ ~LtS(a, b)
        \/ o.inst.op = "BLTU" /\ LtU(a, b)
        \/ o.inst.op = "BGEU" /\ ~LtU(a, b)

\* The registers a turn started with, with value linked into rd (nothing
\* when rd is 0).
Linked(o, value) ==
    IF o.inst.rd = 0 THEN o.before ELSE [o.before EXCEPT ![o.inst.rd] = value]

\* C1: register 0 is hard-wired to zero. In every state read_register(0) is 0
\* and the stored register 0 is 0; a write_register to index 0 changes no
\* register, and neither does a turn of the loop whose instruction has
\* rd = 0.
C1_RegisterZeroHardWired ==
    /\ read_register(registers, 0) = Zero
    /\ registers[0] = Zero
    /\ (last.op = "write_register" /\ last.index = 0) => registers = last.before
    /\ (IsCycle(last) /\ last.inst.rd = 0) => registers = last.before

\* A nonzero value written to index 0 right after a JAL with rd = 0 ran.
C1_Witness ==
    /\ last.op = "write_register" /\ last.index = 0 /\ last.value # Zero
    /\ OkCycle(prev) /\ prev.inst.op = "JAL" /\ prev.inst.rd = 0

\* C2: when fetch, decode or execute of a turn fails with an Exception, the
\* pc after the turn equals the pc before it.
C2_FailedCycleKeepsPc ==
    FailedCycle(last) => pc = last.pc

\* C6: after a successful turn whose instruction is not JAL, JALR or a taken
\* branch, the pc is the pc before the turn plus the width of the parcel
\* that was decoded (2 for a compressed parcel, 4 otherwise).
C6_PcAdvancesByWidth ==
    (/\ OkCycle(last)
     /\ last.inst.op \notin {"JAL", "JALR"}
     /\ ~(last.inst.op \in BranchOps /\ PredicateHolds(last)))
        => pc = NextParcel(last)

\* C7: a branch whose predicate holds leaves the pc at the branch's address
\* plus the sign-extended offset (modulo 2^64); a branch whose predicate does
\* not hold advances the pc by the parcel width; no register is written
\* either way.
C7_Branches ==
    (OkCycle(last) /\ last.inst.op \in BranchOps) =>
        /\ registers = last.before
        /\ pc = IF PredicateHolds(last)
                THEN Displaced(last, last.inst.offset)
                ELSE NextParcel(last)

\* A turn that ran a JAL with offset 0.
RanJalZero(o) == OkCycle(o) /\ o.inst.op = "JAL" /\ o.inst.offset = 0

\* The hart stands at the instruction turn o ran: the loop is running, the
\* pc is where o started, and the next turn decodes the same instruction from
\* the same parcel.
StandsAt(o) ==
    /\ status = "running"
    /\ pc = o.pc
    /\ \E c \in {CycleOf(registers, pc, memory)} :
          c.result = "Ok" /\ c.parcel = o.parcel /\ c.inst = o.inst

\* C8: a JAL with offset 0 never leaves its own address. A turn that ran one
\* leaves the pc at the JAL's address, with that address plus the parcel
\* width stored in rd when rd is not 0 and no other register changed, and
\* leaves the hart standing at the same JAL, so that every later turn runs it
\* again; a register write between two turns does not move the hart either.
C8_JalZeroNeverLeaves ==
    /\ RanJalZero(last) =>
          /\ pc = last.pc
          /\ registers = Linked(last, NextParcel(last))
          /\ StandsAt(last)
    /\ (last.op = "write_register" /\ RanJalZero(prev)) => StandsAt(prev)

\* Two turns in a row ran the same JAL with offset 0 and rd not 0.
C8_Witness ==
    /\ RanJalZero(prev) /\ RanJalZero(last)
    /\ last.inst.rd # 0
    /\ prev.inst = last.inst /\ prev.pc = last.pc

\* C9: JAL writes its address plus the parcel width to rd and sets the pc to
\* its address plus the offset; JALR writes its address plus the parcel
\* width to rd and sets the pc to (rs1 + offset) with bit 0 cleared, rs1 as
\* held before the link write; with rd = 0 only the pc changes.
C9_JumpAndLink ==
    (OkCycle(last) /\ last.inst.op \in {"JAL", "JALR"}) =>
        /\ registers = Linked(last, NextParcel(last))
        /\ last.inst.op = "JAL" => pc = Displaced(last, last.inst.offset)
        /\ last.inst.op = "JALR" =>
              \E t \in {AddW(Held(last, last.inst.rs1), FromInt(last.inst.offset))} :
                  pc = [t EXCEPT ![1] = t[1] - (t[1] % 2)]

\* A turn that ran a U-type instruction.
RanUType(o) == OkCycle(o) /\ o.inst.op \in {"LUI", "AUIPC"}

\* inst[31:12] of the parcel at bits 31:12, bits 11:0 zero, extended from
\* bit 31 to 64 bits.
UpperImmediate(parcel) ==
    << 0, parcel[2] - (parcel[2] % 16), parcel[3], parcel[4],
       IF parcel[4] >= 128 THEN 255 ELSE 0,
       IF parcel[4] >= 128 THEN 255 ELSE 0,
       IF parcel[4] >= 128 THEN 255 ELSE 0,
       IF parcel[4] >= 128 THEN 255 ELSE 0 >>

\* C27: for a U-type parcel the decoded immediate is inst[31:12] placed at
\* bits 31:12 with bits 11:0 zero and sign-extended from bit 31 to 64 bits;
\* LUI writes that value to rd, and AUIPC writes the address of the AUIPC
\* itself plus that value, modulo 2^64, to rd, not the address of the
\* following instruction plus it; no other register changes.
C27_UpperImmediates ==
    RanUType(last) =>
        /\ FromInt(last.inst.imm) = UpperImmediate(last.parcel)
        /\ last.inst.rd = Field(last.parcel, 7, 5)
        /\ last.inst.op = "LUI" =>
              registers = Linked(last, UpperImmediate(last.parcel))
        /\ last.inst.op = "AUIPC" =>
              /\ registers =
                    Linked(last, AddW(last.pc, UpperImmediate(last.parcel)))
              /\ last.inst.rd # 0 =>
                    registers # Linked(last, AddW(NextParcel(last),
                                                  UpperImmediate(last.parcel)))

\* AUIPC x1,0x7FFFF ran 8 bytes past the reset vector, right after
\* LUI x8,0x80000 had written 0xFFFF_FFFF_8000_0000.
C27_Witness ==
    /\ RanUType(last) /\ RanUType(prev)
    /\ last.inst.op = "AUIPC"
    /\ last.pc = AddW(MEM_BASE, FromNat(8))
    /\ prev.inst.op = "LUI"
    /\ read_register(registers, 8) = <<0, 0, 0, 128, 255, 255, 255, 255>>
    /\ read_register(registers, 1) = <<8, 240, 255, 255, 0, 0, 0, 0>>

-----------------------------------------------------------------------------
(* Cpu::execute as a function of the registers: the arithmetic arms applied *)
(* once to a hart whose x1 and x2 hold chosen values.                       *)

\* Values of x1 and x2: 0, 1, 7, 65, -1, INT64_MIN, INT32_MIN sign-extended,
\* 0x8000_0000, 0xFFFF_FFFF and 2^32.
AluValues ==
    { Zero, One, AllOnes,
      <<7, 0, 0, 0, 0, 0, 0, 0>>,
      <<65, 0, 0, 0, 0, 0, 0, 0>>,
      <<0, 0, 0, 0, 0, 0, 0, 128>>,
      <<0, 0, 0, 128, 255, 255, 255, 255>>,
      <<0, 0, 0, 128, 0, 0, 0, 0>>,
      <<255, 255, 255, 255, 0, 0, 0, 0>>,
      <<0, 0, 0, 0, 1, 0, 0, 0>> }

AluShamts == {0, 1, 31}

AluImms == {0, 1, -1}

AluUppers == {(0 - 524288) * 4096, 4096}

\* Cpu::new followed by write_register(1, a) and write_register(2, b).
AluInit ==
    /\ \E a \in AluValues, b \in AluValues :
            registers = write_register(
                            write_register([i \in 0..31 |-> Zero], 1, a), 2, b)
    /\ pc = MEM_BASE
    /\ memory = MemoryNew(MemSize)
    /\ csr = CsrNew
    /\ status = "running"
    /\ last = NoOp
    /\ prev = NoOp
    /\ steps = 0
    /\ mstatus = Zero

\* One call of execute on an instruction that was never fetched: op x3, x1,
\* x2 or op x3, x1, imm or op x3, x1, shamt.
DoExecute(op, imm, shamt) ==
    /\ status = "running"
    /\ last = NoOp
    /\ \E inst \in {Inst(op, 3, 1, 2, imm, 0, shamt)} :
        \E e \in {Execute(registers, pc, memory, inst)} :
          /\ registers' = e.registers
          /\ pc' = e.pc
          /\ memory' = e.memory
          /\ status' = StatusAfter(e.result)
          /\ last' = [op |-> "execute", inst |-> inst, result |-> e.result,
                      payload |-> e.payload, before |-> registers]
    /\ prev' = last
    /\ steps' = steps + 1
    /\ UNCHANGED <<csr, mstatus>>

ExecuteR(op) == DoExecute(op, 0, 0)
ExecuteW(op) == DoExecute(op, 0, 0)
ExecuteShift(op, shamt) == DoExecute(op, 0, shamt)
ExecuteAddiw(imm) == DoExecute("ADDIW", imm, 0)
\* LUI x3, 0x80000 and LUI x3, 0x1
ExecuteLui(imm) == DoExecute("LUI", imm, 0)

AluNext ==
    \/ \E op \in ROps : ExecuteR(op)
    \/ \E op \in WOps : ExecuteW(op)
    \/ \E op \in ShiftOps, shamt \in AluShamts : ExecuteShift(op, shamt)
    \/ \E imm \in AluImms : ExecuteAddiw(imm)
    \/ \E imm \in AluUppers : ExecuteLui(imm)

AluSpec == AluInit /\ [][AluNext]_vars

IsExecute == last.op = "execute" /\ last.result = "Ok"

\* The word forms: instructions whose result is a 32-bit value.
WordForms == WOps \cup {"ADDIW", "SLLIW", "SRLIW", "SRAIW"}

\* The values of rs1 and rs2 before the instruction, and of rd after it.
Rs1Before == read_register(last.before, last.inst.rs1)
Rs2Before == read_register(last.before, last.inst.rs2)
RdAfter == read_register(registers, last.inst.rd)

\* w extended from bit 31: bytes 5..8 are 255 when bit 31 is set, 0 otherwise.
SignExtended32(w) ==
    \A i \in 5..8 : w[i] = IF w[4] >= 128 THEN 255 ELSE 0

\* C13: every word form (ADDW, SUBW, SLLW, SRLW, SRAW, MULW, DIVW, DIVUW,
\* REMW, REMUW, ADDIW, SLLIW, SRLIW, SRAIW) leaves in rd the sign-extension
\* of the low 32 bits of its result; LUI x,0x80000 leaves
\* 0xFFFF_FFFF_8000_0000 and ADDIW of it with 0 leaves the same; a right
\* shift by 0 of a source with bit 31 set leaves the upper 32 bits all ones.
C13_WordFormsSignExtend ==
    IsExecute =>
        /\ last.inst.op \in WordForms => SignExtended32(RdAfter)
        /\ (last.inst.op = "LUI" /\ last.inst.imm < 0) =>
                RdAfter = <<0, 0, 0, 128, 255, 255, 255, 255>>
        /\ (/\ last.inst.op = "ADDIW" /\ last.inst.imm = 0
            /\ Rs1Before = <<0, 0, 0, 128, 255, 255, 255, 255>>) =>
                RdAfter = <<0, 0, 0, 128, 255, 255, 255, 255>>
        /\ (/\ last.inst.op \in {"SRLIW", "SRAIW", "SRLW", "SRAW"}
            /\ last.inst.op \in {"SRLIW", "SRAIW"} => last.inst.shamt = 0
            /\ last.inst.op \in {"SRLW", "SRAW"} => Rs2Before[1] % 32 = 0
            /\ Rs1Before[4] >= 128) =>
                \A i \in 5..8 : RdAfter[i] = 255

DivOps == {"DIV", "DIVU", "DIVW", "DIVUW"}
RemOps == {"REM", "REMU", "REMW", "REMUW"}

\* The divisor of the instruction is zero: the whole of rs2 for the 64-bit
\* forms, its low 32 bits for the word forms.
DivisorIsZero ==
    IF last.inst.op \in WOps
    THEN \A i \in 1..4 : Rs2Before[i] = 0
    ELSE Rs2Before = Zero

\* The dividend of the instruction as a 64-bit value: rs1, or for the word
\* forms its low 32 bits extended from bit 31.
Dividend ==
    IF last.inst.op \in WOps
    THEN [i \in 1..8 |-> IF i <= 4 THEN Rs1Before[i]
                          ELSE IF Rs1Before[4] >= 128 THEN 255 ELSE 0]
    ELSE Rs1Before

\* C14: division by zero never fails: DIV, DIVU, DIVW and DIVUW write the
\* all-ones 64-bit value to rd, REM, REMU, REMW and REMUW write the dividend.
C14_DivisionByZero ==
    (/\ last.op = "execute"
     /\ last.inst.op \in DivOps \cup RemOps
     /\ DivisorIsZero) =>
        /\ last.result = "Ok"
        /\ last.inst.op \in DivOps =>
                RdAfter = <<255, 255, 255, 255, 255, 255, 255, 255>>
        /\ last.inst.op \in RemOps => RdAfter = Dividend

\* C15: signed overflow never fails: DIV of INT64_MIN by -1 writes INT64_MIN
\* and REM writes 0; DIVW of INT32_MIN by -1 writes INT32_MIN sign-extended
\* and REMW writes 0.
C15_SignedOverflow ==
    last.op = "execute" =>
        /\ (/\ last.inst.op \in {"DIV", "REM"}
            /\ Rs1Before = <<0, 0, 0, 0, 0, 0, 0, 128>>
            /\ Rs2Before = <<255, 255, 255, 255, 255, 255, 255, 255>>) =>
                /\ last.result = "Ok"
                /\ RdAfter = IF last.inst.op = "DIV"
                             THEN <<0, 0, 0, 0, 0, 0, 0, 128>>
                             ELSE <<0, 0, 0, 0, 0, 0, 0, 0>>
        /\ (/\ last.inst.op \in {"DIVW", "REMW"}
            /\ SubSeq(Rs1Before, 1, 4) = <<0, 0, 0, 128>>
            /\ SubSeq(Rs2Before, 1, 4) = <<255, 255, 255, 255>>) =>
                /\ last.result = "Ok"
                /\ RdAfter = IF last.inst.op = "DIVW"
                             THEN <<0, 0, 0, 128, 255, 255, 255, 255>>
                             ELSE <<0, 0, 0, 0, 0, 0, 0, 0>>

\* DIVW of INT32_MIN by -1 has written INT32_MIN sign-extended.
C15_Witness ==
    /\ last.op = "execute"
    /\ last.inst.op = "DIVW"
    /\ SubSeq(Rs1Before, 1, 4) = <<0, 0, 0, 128>>
    /\ SubSeq(Rs2Before, 1, 4) = <<255, 255, 255, 255>>
    /\ RdAfter = <<0, 0, 0, 128, 255, 255, 255, 255>>

-----------------------------------------------------------------------------
(* The decoders as functions of the parcel: each applied once to a parcel  *)
(* chosen field by field.                                                  *)

\* A 16-bit parcel from its fields: bits [1:0], [6:2], [11:7], [12], [15:13].
ShortParcel(quadrant, low, high, bit12, funct3) ==
    FromNat(quadrant + 4 * low + 128 * high + 4096 * bit12 + 8192 * funct3)

ShortParcels ==
    { ShortParcel(q, lo, hi, b, f) :
        q \in 0..3, lo \in (0..8) \cup {16, 31}, hi \in {0, 1, 2, 8, 31},
        b \in 0..1, f \in 0..7 }

\* A 32-bit parcel from its fields.
Parcel(opcode, rd, funct3, rs1, rs2, funct7) ==
    [FromNat(opcode + 128 * rd + 4096 * funct3 + 32768 * rs1
             + 1048576 * (rs2 % 16))
        EXCEPT ![4] = (rs2 \div 16) + 2 * funct7]

\* Every major opcode whose low two bits are 0b11, and some that are not.
Opcodes == {4 * k + 3 : k \in 0..31} \cup {0, 1, 2, 16, 50, 113, 114}

\* OP-IMM, OP-IMM-32, branch and JAL parcels whose immediate bits are all
\* clear or all set, with either value of the top bit.
EdgeParcels ==
    { Parcel(o, r, f3, r, r, f7) :
        o \in {\b0010011, \b0011011, \b1100011, \b1101111}, r \in {0, 31},
        f3 \in {0, 1, 5, 7}, f7 \in {0, 1, 32, 33, 63, 64, 127} }

Parcels ==
    { Parcel(o, 5, f3, 1, rs2, f7) :
        o \in Opcodes, f3 \in 0..7, rs2 \in {0, 1, 2},
        f7 \in {0, 1, 2, 32, 127} }
    \cup EdgeParcels

\* What a call of a decoder did: the decoder, the parcel handed to it and
\* the Result.
Decoding(name, parcel, d) ==
    /\ status = "running"
    /\ last' = [op |-> name, parcel |-> parcel, ok |-> d.ok, inst |-> d.inst,
                payload |-> d.payload]
    /\ prev' = last
    /\ steps' = steps + 1
    /\ UNCHANGED <<registers, pc, memory, csr, status, mstatus>>

\* The guard last = NoOp stands first in each action: one decoder is called,
\* once.
DoCpuDecode ==
    /\ last = NoOp
    /\ \E parcel \in Parcels \cup ShortParcels :
            Decoding("Cpu::decode", parcel, Decode(parcel))

DoDecode ==
    /\ last = NoOp
    /\ \E parcel \in Parcels \cup ShortParcels :
            Decoding("decode", parcel, decode(parcel))

DoDecodeCompressed ==
    /\ last = NoOp
    /\ \E parcel \in ShortParcels :
            Decoding("decode_compressed", parcel, DecodeCompressed(parcel))

\* The loop's choice of decoder, on what fetch returned.
DoSelect ==
    /\ last = NoOp
    /\ \E parcel \in Parcels : Decoding("select", parcel, Select(parcel))

DecodeNext ==
    \/ DoCpuDecode
    \/ DoDecode
    \/ DoDecodeCompressed
    \/ DoSelect

DecodeSpec == Init /\ [][DecodeNext]_vars

\* The parcel of the last call as a number when it fits 16 bits, and fields
\* of it.
Parcel16 == last.parcel[1] + 256 * last.parcel[2]
Bits(lo, n) == (Parcel16 \div (2 ^ lo)) % (2 ^ n)
Signed(v, bits) == IF v >= 2 ^ (bits - 1) THEN v - 2 ^ bits ELSE v

\* The last call was decode_compressed on a parcel of the given quadrant and
\* funct3.
IsShort(quadrant, funct3) ==
    /\ last.op = "decode_compressed"
    /\ Bits(0, 2) = quadrant
    /\ Bits(13, 3) = funct3

\* The Result is Err(UnknownInstruction(parcel)).
FailedWithParcel == ~last.ok /\ last.payload = last.parcel

\* nzuimm[5:4|9:6|2|3] of C.ADDI4SPN, from parcel bits [12:11|10:7|6|5].
Nzuimm == 16 * Bits(11, 2) + 64 * Bits(7, 4) + 4 * Bits(6, 1) + 8 * Bits(5, 1)

\* C16: decode_compressed returns UnknownInstruction for every quadrant-00,
\* funct3 = 000 parcel (C.ADDI4SPN) whose nzuimm is 0, whatever its rd'
\* field, the all-zero parcel 0x0000 included; it returns
\* ADDI rd', x2, nzuimm only when nzuimm # 0.
C16_Addi4spnZeroImmediate ==
    IsShort(0, 0) =>
        IF Nzuimm = 0
        THEN ~last.ok
        ELSE /\ last.ok
             /\ last.inst = IType("ADDI", 8 + Bits(2, 3), 2, Nzuimm)

\* imm[5|4:0] of C.LUI, C.ADDIW and C.SLLI, from parcel bits [12|6:2].
Imm6 == 32 * Bits(12, 1) + Bits(2, 5)

\* nzimm[9|4|6|8:7|5] of C.ADDI16SP, from parcel bits [12|6|5|4:3|2].
Nzimm16sp ==
    Signed(512 * Bits(12, 1) + 16 * Bits(6, 1) + 64 * Bits(5, 1)
           + 128 * Bits(3, 2) + 32 * Bits(2, 1), 10)

\* C17: decode_compressed returns UnknownInstruction carrying the parcel for
\* C.LUI with nzimm = 0, C.ADDI16SP (rd = 2) with nzimm = 0, and C.LWSP,
\* C.LDSP, C.SLLI and C.ADDIW with rd = 0; with a legal immediate and rd it
\* returns the expanded LUI, ADDI x2,x2, LW, LD, SLLI or ADDIW.
C17_IllegalCompressedForms ==
    LET rd == Bits(7, 5)
    IN  /\ (IsShort(1, 3) /\ rd = 2) =>
               IF Nzimm16sp = 0 THEN FailedWithParcel
               ELSE last.ok /\ last.inst = IType("ADDI", 2, 2, Nzimm16sp)
        /\ (IsShort(1, 3) /\ rd \notin {0, 2}) =>
               IF Imm6 = 0 THEN FailedWithParcel
               ELSE last.ok
                    /\ last.inst = UType("LUI", rd, Signed(Imm6, 6) * 4096)
        /\ IsShort(2, 2) =>
               IF rd = 0 THEN FailedWithParcel
               ELSE last.ok
                    /\ last.inst = LoadType("LW", rd, 2,
                           32 * Bits(12, 1) + 4 * Bits(4, 3) + 64 * Bits(2, 2))
        /\ IsShort(2, 3) =>
               IF rd = 0 THEN FailedWithParcel
               ELSE last.ok
                    /\ last.inst = LoadType("LD", rd, 2,
                           32 * Bits(12, 1) + 8 * Bits(5, 2) + 64 * Bits(2, 3))
        /\ IsShort(2, 0) =>
               IF rd = 0 THEN FailedWithParcel
               ELSE last.ok /\ last.inst = ShiftType("SLLI", rd, rd, Imm6)
        /\ IsShort(1, 1) =>
               IF rd = 0 THEN FailedWithParcel
               ELSE last.ok
                    /\ last.inst = IType("ADDIW", rd, rd, Signed(Imm6, 6))

\* C.LWSP with rd = 0 has failed carrying its parcel.
C17_Witness ==
    /\ IsShort(2, 2)
    /\ Bits(7, 5) = 0
    /\ Bits(2, 5) = 31
    /\ FailedWithParcel

\* The fields of a 32-bit parcel that select a row.
Opcode7 == last.parcel[1] % 128
Funct3 == (last.parcel[2] \div 16) % 8
Funct7 == last.parcel[4] \div 2
Imm12 == 16 * last.parcel[4] + (last.parcel[3] \div 16)

\* The rows of the opcode table: register-register and M-extension, their
\* word variants, register-immediate (SRLI and SRAI told apart by bit 30
\* alone) and its word forms, loads, stores, branches, LUI, AUIPC, JAL,
\* JALR, and System (ECALL, EBREAK and the six CSR variants).
TableRow ==
    CASE Opcode7 = \b0110011 ->
             \/ Funct7 \in {\b0000000, \b0000001}
             \/ Funct7 = \b0100000 /\ Funct3 \in {\b000, \b101}
      [] Opcode7 = \b0111011 ->
             \/ Funct7 = \b0000000 /\ Funct3 \in {\b000, \b001, \b101}
             \/ Funct7 = \b0100000 /\ Funct3 \in {\b000, \b101}
             \/ Funct7 = \b0000001
                   /\ Funct3 \in {\b000, \b100, \b101, \b110, \b111}
      [] Opcode7 = \b0010011 -> TRUE
      [] Opcode7 = \b0011011 ->
             \/ Funct3 \in {\b000, \b001}
             \/ Funct3 = \b101 /\ Funct7 \in {\b0000000, \b0100000}
      [] Opcode7 = \b0000011 -> Funct3 \in 0..6
      [] Opcode7 = \b0100011 -> Funct3 \in 0..3
      [] Opcode7 = \b1100011 -> Funct3 \in {0, 1, 4, 5, 6, 7}
      [] Opcode7 \in {\b0110111, \b0010111, \b1101111} -> TRUE
      [] Opcode7 = \b1100111 -> Funct3 = \b000
      [] Opcode7 = \b1110011 ->
             \/ Funct3 = \b000 /\ Imm12 \in {0, 1}
             \/ Funct3 \in {1, 2, 3, 5, 6, 7}
      [] OTHER -> FALSE

Is32BitDecode == last.op \in {"Cpu::decode", "decode"}

\* C18: for every 32-bit parcel p whose low two bits are 0b11 and whose
\* (opcode, funct3, funct7 / imm[11:0]) is not a row of the opcode table,
\* the 32-bit decoder (Cpu::decode and the free decode alike) fails with
\* UnknownInstruction whose payload is exactly p.
C18_NoRowIsUnknown ==
    (/\ Is32BitDecode
     /\ last.parcel[1] % 4 = 3
     /\ ~TableRow) => FailedWithParcel

\* An OP parcel with funct7 = 0b0000010 has failed carrying itself.
C18_Witness ==
    /\ Is32BitDecode
    /\ Opcode7 = \b0110011
    /\ Funct7 = \b0000010
    /\ last.parcel[2] # 0
    /\ FailedWithParcel

\* C19: the low two bits of the parcel select the decoder: the 32-bit
\* decoder exactly when they are 0b11, the compressed decoder (on the low
\* 16 bits) otherwise; and the decoders are disjoint: decode_compressed
\* fails with UnknownInstruction on every parcel whose low two bits are 0b11
\* and the 32-bit decoder fails on every parcel whose low two bits are not.
C19_WidthSelection ==
    LET answer == [ok |-> last.ok, inst |-> last.inst, payload |-> last.payload]
        low == last.parcel[1] % 4
    IN  /\ (last.op = "select" /\ low = 3) => answer = Decode(last.parcel)
        /\ (last.op = "select" /\ low # 3) =>
               answer = DecodeCompressed(
                           [i \in 1..8 |-> IF i <= 2 THEN last.parcel[i] ELSE 0])
        /\ (last.op = "decode_compressed" /\ low = 3) => ~last.ok
        /\ (Is32BitDecode /\ low # 3) => ~last.ok

\* The loop has handed a parcel with low bits 0b01 and a non-zero upper half
\* to decode_compressed, which returned an instruction.
C19_Witness ==
    /\ last.op = "select"
    /\ last.parcel[1] % 4 = 1
    /\ last.parcel[4] # 0
    /\ last.ok

-----------------------------------------------------------------------------
(* main (main.rs): the Fibonacci image is loaded at the reset vector, a0   *)
(* and ra are seeded, and the loop runs until EBREAK.                      *)

\* code
FibCode ==
    << 147, 2, 5, 0,        \* mv   t0, a0
       19, 5, 0, 0,         \* li   a0, 0
       19, 3, 16, 0,        \* li   t1, 1
       99, 138, 2, 0,       \* beqz t0, 20
       179, 3, 101, 0,      \* add  t2, a0, t1
       19, 5, 3, 0,         \* mv   a0, t1
       19, 131, 3, 0,       \* mv   t1, t2
       147, 130, 242, 255,  \* addi t0, t0, -1
       227, 152, 2, 254,    \* bne  t0, zero, -16
       115, 0, 16, 0 >>     \* ebreak

\* Memory::new, Bus::new: a buffer that holds the image and more.
FibInit ==
    /\ registers = [i \in 0..31 |-> Zero]
    /\ pc = MEM_BASE
    /\ memory = MemoryNew(Len(FibCode) + MemSize)
    /\ csr = CsrNew
    /\ status = "running"
    /\ last = NoOp
    /\ prev = NoOp
    /\ steps = 0
    /\ mstatus = Zero

\* The loading loop.
LoadFib ==
    /\ status = "running"
    /\ last = NoOp
    /\ \E r \in {LoadBytes(memory, FibCode, 1)} :
           /\ memory' = r.data
           /\ status' = IF r.result = "Ok" THEN "running" ELSE "abort"
    /\ last' = [op |-> "load"]
    /\ prev' = last
    /\ UNCHANGED <<registers, pc, csr, steps, mstatus>>

\* cpu.write_register(10, n); cpu.write_register(1, 12345678)
SeedFib(n) ==
    /\ status = "running"
    /\ last.op = "load"
    /\ registers' = write_register(write_register(registers, 10, FromNat(n)),
                                   1, FromNat(12345678))
    /\ last' = [op |-> "seed", n |-> n]
    /\ prev' = last
    /\ UNCHANGED <<pc, memory, csr, status, steps, mstatus>>

\* One turn of main's loop: fetch, Cpu::decode, the break at EBREAK, execute.
MainTurn(regs, data, f) ==
    IF f.result # "Ok"
    THEN Turn(f.result, f.payload, regs, f.pc, data, Zero, NoInst)
    ELSE Dispatch(regs, data, f, Decode(f.value))

\* How main's loop goes on: it breaks on a fetch or decode error and at
\* EBREAK, and drops the Result of execute.
MainStatus(c) ==
    CASE c.result = "abort" -> "abort"
      [] c.result = "ebreak" -> "halted"
      [] c.result # "Ok" /\ c.inst = NoInst -> "error"
      [] OTHER -> "running"

\* The loop is turning: the image is loaded, the registers are seeded and
\* no break was taken.
Looping ==
    /\ status = "running"
    /\ last.op \in {"seed", "cycle"}
    /\ steps < MaxTurns

MainCycle ==
    /\ Looping
    /\ \E c \in {MainTurn(registers, memory, Fetch(memory, pc))} :
           /\ registers' = c.registers
           /\ pc' = c.pc
           /\ memory' = c.memory
           /\ status' = MainStatus(c)
           /\ last' = [op |-> "cycle", pc |-> pc, parcel |-> c.parcel,
                       inst |-> c.inst, result |-> c.result,
                       payload |-> c.payload, before |-> registers]
    /\ prev' = last
    /\ steps' = steps + 1
    /\ UNCHANGED <<csr, mstatus>>

FibNext ==
    \/ LoadFib
    \/ \E n \in 0..MaxFib : SeedFib(n)
    \/ MainCycle

\* A step that counts a turn. MainCycle is the only action that changes
\* steps and its body is defined whenever Looping holds, so a Turned step is
\* a MainCycle step and Turned is enabled exactly when MainCycle is.
Turned == Looping /\ steps' = steps + 1

\* The loop of main turns for as long as it has not broken: weak fairness of
\* MainCycle, stated on Turned.
FibSpec == FibInit /\ [][FibNext]_vars /\ WF_steps(Turned)

\* The Fibonacci numbers: 0, 1, 1, 2, 3, 5, ...
RECURSIVE FibOf(_)
FibOf(n) == IF n < 2 THEN n ELSE FibOf(n - 1) + FibOf(n - 2)

\* The image is loaded and the run is about to start with a0 = n.
Seeded(n) == last.op = "seed" /\ last.n = n

\* The loop has broken at the EBREAK with a0 = v.
HaltedWith(v) ==
    /\ status = "halted"
    /\ last.op = "cycle"
    /\ last.result = "ebreak"
    /\ last.inst = EBREAK
    /\ read_register(registers, 10) = v

\* C20: the run of the Fibonacci image from the reset vector with x10 = 10
\* and x1 = 0x00BC_614E eventually fetches the EBREAK with x10 = 55, and no
\* turn on the way returns an error; from a seed n the run ends with
\* x10 = Fib(n), and from n = 0 with x10 = 0.
C20_FibonacciReachesEbreak ==
    /\ [](last.op = "cycle" => last.result \in {"Ok", "ebreak"})
    /\ [](status \in {"running", "halted"})
    /\ Seeded(10) ~> HaltedWith(<<55, 0, 0, 0, 0, 0, 0, 0>>)
    /\ Seeded(0) ~> HaltedWith(<<0, 0, 0, 0, 0, 0, 0, 0>>)
    /\ \A n \in 0..MaxFib : Seeded(n) ~> HaltedWith(FromNat(FibOf(n)))

\* The run from 10 has stopped at the EBREAK, 40 bytes past the reset vector,
\* with 55 in a0 and ra as seeded.
C20_Witness ==
    /\ HaltedWith(<<55, 0, 0, 0, 0, 0, 0, 0>>)
    /\ pc = AddW(MEM_BASE, FromNat(Len(FibCode)))
    /\ read_register(registers, 1) = <<78, 97, 188, 0, 0, 0, 0, 0>>
    /\ read_register(registers, 5) = Zero

-----------------------------------------------------------------------------
(* A countdown loop run from the reset vector: the image is loaded through *)
(* the Bus and the loop of the driver turns until EBREAK.                  *)

\* ADDI x1,x0,n; ADDI x1,x1,-1; BNE x1,x0,-4; EBREAK
CountdownCode(n) ==
    << 147, 0, (n % 16) * 16, n \div 16,
       147, 128, 240, 255,
       227, 158, 0, 254,
       115, 0, 16, 0 >>

\* The loading loop, for the countdown from n.
LoadCountdown(n) ==
    /\ status = "running"
    /\ last = NoOp
    /\ \E r \in {LoadBytes(memory, CountdownCode(n), 1)} :
           /\ memory' = r.data
           /\ status' = IF r.result = "Ok" THEN "running" ELSE "abort"
    /\ last' = [op |-> "load", n |-> n, branches |-> <<>>]
    /\ prev' = last
    /\ UNCHANGED <<registers, pc, csr, steps, mstatus>>

\* The loop is turning on the countdown image.
Counting ==
    /\ status = "running"
    /\ last.op \in {"load", "cycle"}
    /\ steps < MaxTurns

\* The branches a run has evaluated so far, in order: TRUE for one whose arm
\* assigned the pc, FALSE for one that left the pc as fetch left it.
Evaluated(branches, c, fetched) ==
    IF c.result = "Ok" /\ c.inst.op \in BranchOps
    THEN Append(branches, c.pc # fetched)
    ELSE branches

\* One turn of the loop on the countdown image.
CountdownCycle ==
    /\ Counting
    /\ \E c \in {CycleOf(registers, pc, memory)} :
           /\ registers' = c.registers
           /\ pc' = c.pc
           /\ memory' = c.memory
           /\ status' = StatusOf(c.result)
           /\ last' = [op |-> "cycle", pc |-> pc, parcel |-> c.parcel,
                       inst |-> c.inst, result |-> c.result,
                       payload |-> c.payload, before |-> registers,
                       n |-> last.n,
                       branches |-> Evaluated(last.branches, c,
                                              AddW(pc, FromNat(4)))]
    /\ prev' = last
    /\ steps' = steps + 1
    /\ UNCHANGED <<csr, mstatus>>

CountdownNext ==
    \/ \E n \in 1..MaxCount : LoadCountdown(n)
    \/ CountdownCycle

\* A step that counts a turn. CountdownCycle is the only action that changes
\* steps and its body is defined whenever Counting holds, so a CountdownTurned
\* step is a CountdownCycle step and the two are enabled together.
CountdownTurned == Counting /\ steps' = steps + 1

\* The loop turns for as long as it has not returned: weak fairness of
\* CountdownCycle, stated on CountdownTurned.
CountdownSpec == Init /\ [][CountdownNext]_vars /\ WF_steps(CountdownTurned)

\* The countdown from n is loaded and about to run.
CountdownLoaded(n) == last.op = "load" /\ last.n = n

\* The run of the countdown from n has stopped at the EBREAK.
CountdownHalted(n) ==
    /\ status = "halted"
    /\ last.op = "cycle"
    /\ last.n = n
    /\ last.inst = EBREAK
    /\ last.pc = AddW(MEM_BASE, FromNat(12))

\* k branches taken, then one fall-through.
TakenThenFell(k) == [i \in 1..(k + 1) |-> i <= k]

\* C21 as stated: the run of ADDI x1,x0,3; ADDI x1,x1,-1; BNE x1,x0,-4;
\* EBREAK from the reset vector stops at the EBREAK with register 1 = 0 after
\* the BNE was taken exactly 3 times and then fell through once.
C21_ThreeTakenThenFallThrough ==
    CountdownHalted(3) =>
        /\ read_register(registers, 1) = Zero
        /\ last.branches = TakenThenFell(3)

\* C21, amended: the run of ADDI x1,x0,3; ADDI x1,x1,-1; BNE x1,x0,-4; EBREAK
\* from the reset vector reaches the EBREAK with register 1 = 0, after the BNE
\* was evaluated exactly 3 times: taken twice, then one fall-through. No turn
\* on the way fails, and the run from a count n takes the branch n - 1 times.
C21_BranchBackward ==
    /\ [](last.op = "cycle" => last.result \in {"Ok", "ebreak"})
    /\ [](CountdownHalted(3) =>
            /\ read_register(registers, 1) = Zero
            /\ last.branches = <<TRUE, TRUE, FALSE>>)
    /\ [](\A n \in 1..MaxCount : CountdownHalted(n) =>
            /\ read_register(registers, 1) = Zero
            /\ last.branches = TakenThenFell(n - 1))
    /\ CountdownLoaded(3) ~> CountdownHalted(3)

\* The run from 3 stands at the EBREAK, 12 bytes past the reset vector, with
\* three branches evaluated.
C21_Witness ==
    /\ CountdownHalted(3)
    /\ Len(last.branches) = 3
    /\ pc = AddW(MEM_BASE, FromNat(16))
    /\ read_register(registers, 1) = Zero

-----------------------------------------------------------------------------
(* Cpu::execute on loads and stores: the hart holds a base in x1, a value  *)
(* in x2 and a marker in x3, and load and store instructions are executed. *)

\* Values of x1: four bytes past the base of memory, two bytes below the
\* base, and four bytes below the top of the address space.
AccessBases ==
    { AddW(MEM_BASE, FromNat(4)),
      <<254, 255, 255, 127, 0, 0, 0, 0>>,
      <<252, 255, 255, 255, 255, 255, 255, 255>> }

AccessOffsets == {-4, 0, 7}

\* The value x3 holds before any load.
Marker == <<1, 2, 3, 4, 5, 6, 7, 8>>

\* Cpu::new followed by write_register(1, base), write_register(2, value)
\* and write_register(3, Marker).
AccessInit ==
    /\ \E a \in AccessBases, b \in BusValues :
            registers = write_register(
                            write_register(
                                write_register([i \in 0..31 |-> Zero], 1, a),
                                2, b),
                            3, Marker)
    /\ pc = MEM_BASE
    /\ memory = MemoryNew(MemSize)
    /\ csr = CsrNew
    /\ status = "running"
    /\ last = NoOp
    /\ prev = NoOp
    /\ steps = 0
    /\ mstatus = Zero

\* One call of execute on a load or a store that was never fetched.
DoAccess(op, rd, rs2, offset) ==
    /\ status = "running"
    /\ steps < MaxOps
    /\ \E inst \in {Inst(op, rd, 1, rs2, 0, offset, 0)} :
        \E e \in {Execute(registers, pc, memory, inst)} :
          /\ registers' = e.registers
          /\ pc' = e.pc
          /\ memory' = e.memory
          /\ status' = StatusAfter(e.result)
          /\ last' = [op |-> "execute", inst |-> inst, result |-> e.result,
                      payload |-> e.payload, before |-> registers,
                      stored |-> memory]
    /\ prev' = last
    /\ steps' = steps + 1
    /\ UNCHANGED <<csr, mstatus>>

\* op x3, offset(x1)
ExecuteLoad(op, offset) == DoAccess(op, 3, 0, offset)
\* op x2, offset(x1)
ExecuteStore(op, offset) == DoAccess(op, 0, 2, offset)

AccessNext ==
    \/ \E op \in LoadOps, offset \in AccessOffsets : ExecuteLoad(op, offset)
    \/ \E op \in StoreOps, offset \in AccessOffsets : ExecuteStore(op, offset)

AccessSpec == AccessInit /\ [][AccessNext]_vars

\* The last operation was a load, or a store, that returned r.
LoadReturned(r) ==
    last.op = "execute" /\ last.inst.op \in LoadOps /\ last.result = r
StoreReturned(r) ==
    last.op = "execute" /\ last.inst.op \in StoreOps /\ last.result = r

\* The bytes an instruction moves: 1 for the B forms, 2 for H, 4 for W, 8
\* for D.
Moved(op) ==
    CASE op \in {"LB", "LBU", "SB"} -> 1
      [] op \in {"LH", "LHU", "SH"} -> 2
      [] op \in {"LW", "LWU", "SW"} -> 4
      [] op \in {"LD", "SD"} -> 8

\* rs1 + offset modulo 2^64, and its index into memory.
AccessAddr == AddW(Rs1Before, FromInt(last.inst.offset))
AccessIndex == ToNat(SubW(AccessAddr, MEM_BASE))

\* Byte j (from 1) of the value a load of n bytes gives, from the bytes
\* memory held at the address: the data, then the extension.
LoadedByte(j, n, signed) ==
    IF j <= n THEN last.stored[AccessIndex + j - 1]
    ELSE IF signed /\ last.stored[AccessIndex + n - 1] >= 128 THEN 255
    ELSE 0

\* C22: a load reads exactly 1, 2, 4 or 8 bytes at rs1 + offset (wrapping)
\* through the Bus: LB, LH and LW write the value sign-extended from bit 7,
\* 15 and 31 of the loaded data, LBU, LHU and LWU write it zero-extended, LD
\* writes all 64 bits; a loaded byte 0x80 gives 0xFFFF_FFFF_FFFF_FF80 with LB
\* and 0x80 with LBU. The load changes no byte of memory.
C22_Loads ==
    LoadReturned("Ok") =>
        /\ \A j \in 1..WordLen :
              RdAfter[j] = LoadedByte(j, Moved(last.inst.op),
                                      last.inst.op \in {"LB", "LH", "LW"})
        /\ (last.inst.op = "LB" /\ last.stored[AccessIndex] = 128) =>
              RdAfter = <<128, 255, 255, 255, 255, 255, 255, 255>>
        /\ (last.inst.op = "LBU" /\ last.stored[AccessIndex] = 128) =>
              RdAfter = <<128, 0, 0, 0, 0, 0, 0, 0>>
        /\ memory = last.stored

\* An LB that read the byte 0x80 a store had left at the base of memory.
C22_Witness ==
    /\ LoadReturned("Ok")
    /\ last.inst.op = "LB"
    /\ AccessAddr = MEM_BASE
    /\ last.stored[0] = 128
    /\ prev.op = "execute" /\ prev.inst.op \in StoreOps /\ prev.result = "Ok"
    /\ RdAfter = <<128, 255, 255, 255, 255, 255, 255, 255>>

\* C23: SB, SH, SW and SD change exactly the 1, 2, 4 or 8 memory bytes
\* starting at rs1 + offset, setting them to the low bytes of rs2 in
\* little-endian order; every other memory byte and every register is left
\* unchanged.
C23_Stores ==
    StoreReturned("Ok") =>
        /\ \A x \in DOMAIN memory :
              memory[x] = IF /\ x >= AccessIndex
                             /\ x < AccessIndex + Moved(last.inst.op)
                          THEN Rs2Before[x - AccessIndex + 1]
                          ELSE last.stored[x]
        /\ registers = last.before

\* An SH four bytes past the base onto bytes an SD had filled.
C23_Witness ==
    /\ StoreReturned("Ok")
    /\ last.inst.op = "SH"
    /\ AccessIndex = 4
    /\ prev.op = "execute" /\ prev.inst.op = "SD" /\ prev.result = "Ok"
    /\ \A x \in 0..7 : last.stored[x] # 0
    /\ memory[5] = Rs2Before[2]
    /\ memory[6] = last.stored[6]

\* C29: a load or store whose Bus access fails with InvalidMemoryAccess
\* leaves the register file and memory exactly as they were before the
\* instruction: a failed load does not write rd and a failed store writes no
\* byte.
C29_FailedAccessChangesNothing ==
    (LoadReturned("InvalidMemoryAccess") \/ StoreReturned("InvalidMemoryAccess")) =>
        /\ registers = last.before
        /\ memory = last.stored
        /\ last.payload = AccessAddr

\* A load that failed at an address below the base, after a store had
\* filled memory, with the marker still in rd.
C29_Witness ==
    /\ LoadReturned("InvalidMemoryAccess")
    /\ LtU(AccessAddr, MEM_BASE)
    /\ prev.op = "execute" /\ prev.inst.op \in StoreOps /\ prev.result = "Ok"
    /\ memory # MemoryNew(MemSize)
    /\ read_register(registers, last.inst.rd) = Marker

-----------------------------------------------------------------------------
(* Shifts and multiplications, on the hart of AluSpec.                     *)

\* w doubled k times, modulo 2^64.
RECURSIVE Doubled(_, _)
Doubled(w, k) == IF k = 0 THEN w ELSE Doubled(AddW(w, w), k - 1)

\* Bits 0..(n - 1) of r are those of a moved down by k, with fill in the
\* places a has no bit for.
MovedDown(r, a, k, n, fill) ==
    \A i \in 0..(n - 1) :
        BitOf(r, i) = IF i + k < n THEN BitOf(a, i + k) ELSE fill

\* Bits 0..(n - 1) of r are those of a moved up by k, zeros below.
MovedUp(r, a, k, n) ==
    \A i \in 0..(n - 1) : BitOf(r, i) = IF i >= k THEN BitOf(a, i - k) ELSE 0

\* The low 6 and the low 5 bits of rs2.
Low6 == Rs2Before[1] % 64
Low5 == Rs2Before[1] % 32

\* C24: SLL, SRL and SRA use only the low 6 bits of rs2 as the shift count
\* (a count of 64 + k shifts by k; a count whose low 6 bits are 0 returns rs1
\* unchanged; low 6 bits equal to 63 leaves only the single bit shifted to
\* the top or bottom), SRA and SRAI replicate bit 63, and SLLW, SRLW and
\* SRAW use only the low 5 bits of rs2.
C24_ShiftCounts ==
    IsExecute =>
        /\ last.inst.op = "SLL" =>
              /\ RdAfter = Doubled(Rs1Before, Low6)
              /\ MovedUp(RdAfter, Rs1Before, Low6, 64)
        /\ last.inst.op = "SRL" => MovedDown(RdAfter, Rs1Before, Low6, 64, 0)
        /\ last.inst.op = "SRA" =>
              MovedDown(RdAfter, Rs1Before, Low6, 64, BitOf(Rs1Before, 63))
        /\ last.inst.op = "SRAI" =>
              MovedDown(RdAfter, Rs1Before, last.inst.shamt, 64,
                        BitOf(Rs1Before, 63))
        /\ (last.inst.op \in {"SLL", "SRL", "SRA"} /\ Low6 = 0) =>
              RdAfter = Rs1Before
        /\ (last.inst.op = "SLL" /\ Low6 = 63) =>
              RdAfter = <<0, 0, 0, 0, 0, 0, 0, 128 * (Rs1Before[1] % 2)>>
        /\ (last.inst.op = "SRL" /\ Low6 = 63) =>
              RdAfter = <<Rs1Before[8] \div 128, 0, 0, 0, 0, 0, 0, 0>>
        /\ (last.inst.op = "SRA" /\ Low6 = 63) =>
              RdAfter = IF Rs1Before[8] >= 128 THEN AllOnes ELSE Zero
        /\ last.inst.op = "SLLW" => MovedUp(RdAfter, Rs1Before, Low5, 32)
        /\ last.inst.op = "SRLW" => MovedDown(RdAfter, Rs1Before, Low5, 32, 0)
        /\ last.inst.op = "SRAW" =>
              MovedDown(RdAfter, Rs1Before, Low5, 32, BitOf(Rs1Before, 31))

\* SRA of INT64_MIN by a count of 65 has shifted by 1.
C24_Witness ==
    /\ IsExecute
    /\ last.inst.op = "SRA"
    /\ Rs1Before = <<0, 0, 0, 0, 0, 0, 0, 128>>
    /\ Rs2Before = <<65, 0, 0, 0, 0, 0, 0, 0>>
    /\ RdAfter = <<0, 0, 0, 0, 0, 0, 0, 192>>

\* The product of two unsigned 64-bit values as a 128-bit value, by long
\* multiplication: one row for every byte of b, a scaled by that byte and
\* moved up by the byte's place, and the rows added.
RECURSIVE Scaled(_, _, _, _)
Scaled(a, m, i, carry) ==
    IF i > Len(a) THEN <<>>
    ELSE LET s == a[i] * m + carry
         IN  <<s % 256>> \o Scaled(a, m, i + 1, s \div 256)

ProductRow(a, b, j) ==
    SubSeq([i \in 1..(j - 1) |-> 0] \o Scaled(a \o Zero, b[j], 1, 0), 1, 16)

RECURSIVE RowSum(_, _, _)
RowSum(a, b, j) ==
    IF j > 8 THEN Zero \o Zero
    ELSE AddW(ProductRow(a, b, j), RowSum(a, b, j + 1))

UnsignedProduct(a, b) == RowSum(a, b, 1)

\* Bits 127:64 of the product when a is read as signed, from those of the
\* unsigned product: a negative a stands for a - 2^64, which takes b * 2^64
\* off the product.
HighSigned(high, a, b) == IF a[8] >= 128 THEN SubW(high, b) ELSE high

\* C26: MUL writes the low 64 bits of rs1 * rs2; MULH, MULHU and MULHSU write
\* bits 127:64 of the 128-bit product taking the operands as signed x signed,
\* unsigned x unsigned and signed(rs1) x unsigned(rs2); MULHSU of rs1 = -1
\* and rs2 = 2^64 - 1 gives 0xFFFF_FFFF_FFFF_FFFF and MULHU of the same gives
\* 0xFFFF_FFFF_FFFF_FFFE.
C26_Multiplication ==
    (IsExecute /\ last.inst.op \in {"MUL", "MULH", "MULHU", "MULHSU"}) =>
        \E p \in {UnsignedProduct(Rs1Before, Rs2Before)} :
            /\ last.inst.op = "MUL" => RdAfter = SubSeq(p, 1, 8)
            /\ last.inst.op = "MULHU" => RdAfter = SubSeq(p, 9, 16)
            /\ last.inst.op = "MULHSU" =>
                  RdAfter = HighSigned(SubSeq(p, 9, 16), Rs1Before, Rs2Before)
            /\ last.inst.op = "MULH" =>
                  RdAfter = HighSigned(HighSigned(SubSeq(p, 9, 16),
                                                  Rs1Before, Rs2Before),
                                       Rs2Before, Rs1Before)
            /\ (Rs1Before = AllOnes /\ Rs2Before = AllOnes) =>
                  /\ last.inst.op = "MULHSU" => RdAfter = AllOnes
                  /\ last.inst.op = "MULHU" =>
                        RdAfter = <<254, 255, 255, 255, 255, 255, 255, 255>>
                  /\ last.inst.op = "MULH" => RdAfter = Zero
                  /\ last.inst.op = "MUL" => RdAfter = One

\* MULHSU of -1 and 2^64 - 1 has written all ones.
C26_Witness ==
    /\ IsExecute
    /\ last.inst.op = "MULHSU"
    /\ Rs1Before = AllOnes
    /\ Rs2Before = AllOnes
    /\ RdAfter = AllOnes

-----------------------------------------------------------------------------
(* Mstatus (cpu/csr/mstatus.rs): the wrapper of the mstatus value.         *)

\* The fields of mstatus, as masks: 1 << 1, 1 << 3, 1 << 5, 1 << 7, 1 << 8,
\* 0b11 << 11, 0b11 << 9, 0b11 << 13, 0b11 << 15, 1 << 17 .. 1 << 22,
\* 0b11 << 32, 0b11 << 34 and 1 << 63.
SIE == <<2, 0, 0, 0, 0, 0, 0, 0>>
MIE == <<8, 0, 0, 0, 0, 0, 0, 0>>
SPIE == <<32, 0, 0, 0, 0, 0, 0, 0>>
MPIE == <<128, 0, 0, 0, 0, 0, 0, 0>>
SPP == <<0, 1, 0, 0, 0, 0, 0, 0>>
MPP == <<0, 24, 0, 0, 0, 0, 0, 0>>
VS == <<0, 6, 0, 0, 0, 0, 0, 0>>
FS == <<0, 96, 0, 0, 0, 0, 0, 0>>
XS == <<0, 128, 1, 0, 0, 0, 0, 0>>
MPRV == <<0, 0, 2, 0, 0, 0, 0, 0>>
SUM == <<0, 0, 4, 0, 0, 0, 0, 0>>
MXR == <<0, 0, 8, 0, 0, 0, 0, 0>>
TVM == <<0, 0, 16, 0, 0, 0, 0, 0>>
TW == <<0, 0, 32, 0, 0, 0, 0, 0>>
TSR == <<0, 0, 64, 0, 0, 0, 0, 0>>
UXL == <<0, 0, 0, 0, 3, 0, 0, 0>>
SXL == <<0, 0, 0, 0, 12, 0, 0, 0>>
SD == <<0, 0, 0, 0, 0, 0, 0, 128>>

\* The bits every hart may write: SIE | MIE | SPIE | MPIE | SPP | MPP | MPRV
\* | SUM | MXR | TVM | TW | TSR, which is 0x7E_19AA.
BaseMask == <<170, 25, 126, 0, 0, 0, 0, 0>>

\* A u64 held in a local or in a field: its eight bytes.
U64(w) == <<w[1], w[2], w[3], w[4], w[5], w[6], w[7], w[8]>>

\* Mstatus::make_write_mask
make_write_mask(has_fpu, has_vector) ==
    U64(OrW(OrW(BaseMask, IF has_fpu THEN FS ELSE Zero),
             IF has_vector THEN VS ELSE Zero))

\* Mstatus::new
MstatusNew(val) == val

\* (next_val & !field) | two, with two the 0b10 of the field: 0b10 << 32
\* for UXL and 0b10 << 34 for SXL.
WithXlen64(val, field, two) == U64(OrW(AndW(val, NotW(field)), two))

\* The value Mstatus::write stores from the masked value next_val.
Stored64(next_val, is_rv64) ==
    IF is_rv64
    THEN WithXlen64(WithXlen64(next_val, UXL, <<0, 0, 0, 0, 2, 0, 0, 0>>),
                    SXL, <<0, 0, 0, 0, 8, 0, 0, 0>>)
    ELSE next_val

\* Mstatus::write from the mask on: the bits under the mask come from val,
\* the others stay.
WriteMasked(raw, val, mask, is_rv64) ==
    Stored64(U64(OrW(AndW(raw, NotW(mask)), AndW(val, mask))), is_rv64)

\* Mstatus::write: the raw value the call leaves.
MstatusWrite(raw, val, has_fpu, has_vector, is_rv64) ==
    WriteMasked(raw, val, make_write_mask(has_fpu, has_vector), is_rv64)

\* A read that sets SD for a dirty field and never clears it.
MstatusReadSetOnly(raw) ==
    IF AndW(raw, FS) = FS \/ AndW(raw, VS) = VS \/ AndW(raw, XS) = XS
    THEN OrW(raw, SD)
    ELSE raw

\* Mstatus::read
MstatusRead(raw) ==
    IF AndW(raw, FS) = FS \/ AndW(raw, VS) = VS \/ AndW(raw, XS) = XS
    THEN OrW(raw, SD)
    ELSE AndW(raw, NotW(SD))

\* Values handed to write: 0, all ones, FS dirty, and SD alone.
MstatusValues == { Zero, AllOnes, FS, SD }

\* Values handed to new: those, XS dirty (no write reaches XS), and VS dirty
\* with SD set.
MstatusSeeds == MstatusValues \cup { XS, <<0, 6, 0, 0, 0, 0, 0, 128>> }

\* Mstatus::new(val), beside a hart as Cpu::new leaves it.
MstatusInit ==
    /\ registers = [i \in 0..31 |-> Zero]
    /\ pc = MEM_BASE
    /\ memory = MemoryNew(MemSize)
    /\ csr = CsrNew
    /\ status = "running"
    /\ last = NoOp
    /\ prev = NoOp
    /\ steps = 0
    /\ mstatus \in {MstatusNew(val) : val \in MstatusSeeds}

DoMstatusWrite(val, has_fpu, has_vector, is_rv64) ==
    /\ status = "running"
    /\ steps < MaxOps
    /\ mstatus' = MstatusWrite(mstatus, val, has_fpu, has_vector, is_rv64)
    /\ last' = [op |-> "mstatus.write", val |-> val, has_fpu |-> has_fpu,
                has_vector |-> has_vector, is_rv64 |-> is_rv64]
    /\ steps' = steps + 1
    /\ UNCHANGED <<registers, pc, memory, csr, status, prev>>

DoMstatusRead ==
    /\ status = "running"
    /\ steps < MaxOps
    /\ last' = [op |-> "mstatus.read", value |-> MstatusRead(mstatus)]
    /\ steps' = steps + 1
    /\ UNCHANGED <<registers, pc, memory, csr, status, prev, mstatus>>

MstatusNext ==
    \/ \E val \in MstatusValues, has_fpu \in BOOLEAN, has_vector \in BOOLEAN,
          is_rv64 \in BOOLEAN :
            DoMstatusWrite(val, has_fpu, has_vector, is_rv64)
    \/ DoMstatusRead

MstatusSpec == MstatusInit /\ [][MstatusNext]_vars

\* One of the FS, VS and XS fields of w is 0b11.
Dirty(w) ==
    \/ Field(w, 13, 2) = 3
    \/ Field(w, 9, 2) = 3
    \/ Field(w, 15, 2) = 3

\* The value v is w with bit 63 recomputed as the summary of w's fields.
Summarised(v, w) ==
    /\ BitOf(v, 63) = IF Dirty(w) THEN 1 ELSE 0
    /\ \A i \in 0..62 : BitOf(v, i) = BitOf(w, i)

\* C28: after any sequence of Mstatus::write calls with any Extensions,
\* Mstatus::read returns a value whose SD bit (bit 63) is 1 exactly when at
\* least one of the FS, VS, XS fields equals 0b11, and whose other bits equal
\* the stored raw value; the SD bit passed to write never determines the SD
\* bit read.
C28_SdRecomputedOnRead ==
    /\ Summarised(MstatusRead(mstatus), mstatus)
    /\ last.op = "mstatus.read" => Summarised(last.value, mstatus)
    /\ last.op = "mstatus.write" =>
          BitOf(MstatusRead(mstatus), 63) =
              IF Dirty(mstatus) THEN 1 ELSE 0

\* A write that passed SD = 1 with clean fields to a hart with FPU and vector
\* state, after which read gives SD = 0.
C28_Witness ==
    /\ last.op = "mstatus.write"
    /\ last.val = SD
    /\ last.has_fpu /\ last.has_vector
    /\ ~Dirty(mstatus)
    /\ BitOf(MstatusRead(mstatus), 63) = 0

-----------------------------------------------------------------------------
(* The ranges of the offsets and shift amounts the decoders produce.       *)

\* The parcel of the last call is a 32-bit encoding: its low two bits are
\* 0b11.
IsWide == last.parcel[1] % 4 = 3

\* The top bit of the encoded immediate: bit 31 of a B-type or J-type
\* parcel, bit 12 of C.J, C.BEQZ and C.BNEZ.
TopBit == IF IsWide THEN BitOf(last.parcel, 31) ELSE Bits(12, 1)

\* The offsets an encoding can hold: B-type, J-type, C.J, C.BEQZ / C.BNEZ.
OffsetRange(op) ==
    CASE IsWide /\ op \in BranchOps -> -4096..4094
      [] IsWide /\ op = "JAL" -> -1048576..1048574
      [] ~IsWide /\ op = "JAL" -> -2048..2046
      [] ~IsWide /\ op \in BranchOps -> -256..254

\* C30: every offset a decoder produces for a B-type, J-type, C.J, C.BEQZ or
\* C.BNEZ parcel is even, lies in the range of its encoding ([-4096, 4094],
\* [-1048576, 1048574], [-2048, 2046], [-256, 254]) and is negative exactly
\* when the top bit of the encoded immediate is set; the shift amount of
\* SLLI, SRLI and SRAI lies in 0..63 and that of SLLIW, SRLIW and SRAIW in
\* 0..31.  (JALR carries an I-type immediate and is none of these encodings.)
C30_OffsetsAndShiftAmounts ==
    (last # NoOp /\ last.ok) =>
        /\ last.inst.op \in BranchOps \cup {"JAL"} =>
              /\ last.inst.offset % 2 = 0
              /\ last.inst.offset \in OffsetRange(last.inst.op)
              /\ last.inst.offset < 0 <=> TopBit = 1
        /\ last.inst.op \in {"SLLI", "SRLI", "SRAI"} =>
              last.inst.shamt \in 0..63
        /\ last.inst.op \in {"SLLIW", "SRLIW", "SRAIW"} =>
              last.inst.shamt \in 0..31

\* decode_compressed has returned the C.J with the lowest offset.
C30_Witness ==
    /\ last.op = "decode_compressed"
    /\ last.ok
    /\ last.inst.op = "JAL"
    /\ TopBit = 1
    /\ last.inst.offset = -2048

=============================================================================
